---------------------------- MODULE Spec2Model ----------------------------
(***************************************************************************)
(* Streaming audio pipeline of AudioManager (main/audio_manager.cc) over   *)
(* the board support layer (main/bsp_board.cc).                            *)
(*                                                                         *)
(* Memory is modelled by its contents.  A byte string (a payload handed to *)
(* feed_streaming_audio, the 64 KB streaming buffer, a buffer handed to    *)
(* the I2S driver) is a run list: a sequence of runs [kind, off, len],     *)
(* each standing for bytes off..off+len-1 of the PCM stream named kind.    *)
(* SampleOf gives the 16-bit samples of each stream and ByteAt the         *)
(* little-endian byte found at a position, so memcpy is Overwrite/Slice    *)
(* on run lists and every length and cursor keeps its real value.          *)
(*                                                                         *)
(* Each public operation of the manager is one action.  No task runs      *)
(* streaming_playback_task: start_streaming_playback creates none and no   *)
(* xTaskCreate names it, so the only reader and writer of the ring are the *)
(* four operations below.                                                  *)
(*                                                                         *)
(* Assumptions, stated once: the heap allocations of the manager succeed   *)
(* (streaming_buffer and the temporary drain/merge buffers are non-null),  *)
(* and bsp_audio_init has set tx_handle.  A failing device write is an     *)
(* input of every operation that writes.                                   *)
(*                                                                         *)
(* The capture side is audio_record_task, the one task main.cc creates on  *)
(* the manager, with start_recording and stop_recording and the consumer   *)
(* of s_audio_send_queue in the main loop.  The task is a process with a   *)
(* position: at the top of its loop, or holding a chunk it is about to     *)
(* store and publish.  The heap is kept by its account of the duplicated   *)
(* chunks: how many blocks are allocated and not yet freed, and whether a  *)
(* free has been made with no block outstanding.                           *)
(*                                                                         *)
(* Specifications:                                                         *)
(*   Spec          the streaming calls under WebSocket payloads;           *)
(*   SpecApi       the same under payloads of any size;                    *)
(*   SpecPlay      play_audio among the session calls of the main loop;    *)
(*   SpecRec       the capture side;                                       *)
(*   SpecSteps     feed_streaming_audio on the WebSocket task and          *)
(*                 start_streaming_playback on the main loop, in steps;    *)
(*   SpecRing      feed_streaming_audio on ring states with the cursors    *)
(*                 near the end of the storage;                            *)
(*   SpecTask      the manager calls beside a task that runs               *)
(*                 streaming_playback_task, and SpecTaskFair, the same     *)
(*                 with the start in steps and a scheduler that runs the   *)
(*                 task.  The creation of that task is the one part taken  *)
(*                 from the design and not from the code;                  *)
(*   SpecDrain     finish_streaming_playback in steps on the WebSocket     *)
(*                 task beside that task;                                  *)
(*   SpecStop      stop_streaming_playback in steps on the WebSocket task  *)
(*                 and the start of the main loop in steps, beside it;     *)
(*   SpecApp       the wake sequence of the main loop and the              *)
(*                 DISCONNECTED callback of main.cc, in steps.             *)
(***************************************************************************)
EXTENDS Integers, Sequences, FiniteSets, TLC

VARIABLES
    is_streaming,           \* AudioManager::is_streaming
    streaming_buffer,       \* contents of AudioManager::streaming_buffer (run list)
    streaming_write_pos,    \* AudioManager::streaming_write_pos
    streaming_read_pos,     \* AudioManager::streaming_read_pos
    tx_channel_enabled,     \* bsp_board.cc: tx_channel_enabled
    dev,                    \* observation: device calls issued by the last operation
    last,                   \* observation: the last operation, its inputs, and the
                            \*   operation before it (after) with its starting state
    pre,                    \* observation: manager state when the last operation began
    fed,                    \* observation: payloads fed since the last start
    played,                 \* observation: bytes the device accepted since the last start
    failed,                 \* observation: a device write has failed since the last start
    is_recording,           \* AudioManager::is_recording
    recording_length,       \* AudioManager::recording_length (samples)
    s_audio_send_queue,     \* items [data, len] held by the FreeRTOS queue, oldest first
    heap,                   \* blocks of the duplicated chunks: [live, fault]
    record_pc,              \* position of audio_record_task
    rlast,                  \* observation: the last capture-side step, what it found,
                            \*   and the step before it (after, afterRec)
    feed_pc,                \* position of the feed_streaming_audio call in progress
    feed_arg,               \* its payload
    feed_offset,            \* its local offset
    start_pc,               \* position of the main loop in start_streaming_playback
    task_pc,                \* position of streaming_playback_task ("none": no task)
    play_buffer,            \* the chunk the task has copied out of the ring
    ws_pc,                  \* position of the WebSocket task in the callback it runs
    remaining_size,         \* remaining_data of the teardown in progress on that task
    remaining_buffer,       \* its copy of the unread bytes
    current_state,          \* main.cc: current_state (SpeechState)
    main_pc,                \* position of the main loop in its wake sequence
    connected_              \* WebSocketClient::connected_

streamVars == <<is_streaming, streaming_buffer, streaming_write_pos, streaming_read_pos,
                tx_channel_enabled, dev, last, pre, fed, played, failed>>

recVars == <<is_recording, recording_length, s_audio_send_queue, heap, record_pc, rlast>>

callVars == <<feed_pc, feed_arg, feed_offset, start_pc>>

taskVars == <<task_pc, play_buffer>>

wsVars == <<ws_pc, remaining_size, remaining_buffer>>

appVars == <<current_state, main_pc, connected_>>

vars == <<streamVars, recVars, callVars, taskVars, wsVars, appVars>>

---------------------------------------------------------------------------
(* Program constants *)

STREAMING_BUFFER_SIZE == 64 * 1024
sample_rate == 16000
chunk_size == 25 * (sample_rate \div 1000) * 2
MIN_PACKET_LEN == 128
play_chunk_size == 25 * (sample_rate \div 1000) * 2

PLAY_VARIATION_THRESHOLD == 50

init_silence_size == 320

FEED_VARIATION_THRESHOLD == 30
MIN_CHECK_LEN == 2 * 4
TAIL_LIMIT == 16384
recording_duration_sec == 10
pcm_data_size == ((sample_rate * 20) \div 1000) * 2
recording_buffer_size == sample_rate * recording_duration_sec * 2
SEND_QUEUE_LENGTH == 20

(* size_t arithmetic (32 bits on the target).  Every size the manager      *)
(* computes is a difference or sum of values below 2^17, so a size_t is    *)
(* kept as that integer: x >= 0 is the value x, and x < 0 is the wrapped   *)
(* value 2^32 + x, which compares above every constant of the program and  *)
(* which no allocation can satisfy.                                        *)
Wrapped(x) == x < 0

SizeGE(x, c) == Wrapped(x) \/ x >= c

(* Bound of the model: feeds recorded per session. *)
MaxFeeds == 2

---------------------------------------------------------------------------
(* Byte strings as run lists *)

Seg(kind, off, len) == [kind |-> kind, off |-> off, len |-> len]

Canon(s) == IF s.kind = "zero" THEN Seg("zero", 0, s.len) ELSE s

AppendSeg(rl, s0) ==
    LET s == Canon(s0) IN
    IF s.len = 0 THEN rl
    ELSE IF rl = <<>> THEN <<s>>
    ELSE LET t == rl[Len(rl)] IN
         IF t.kind = s.kind /\ (s.kind = "zero" \/ t.off + t.len = s.off)
         THEN [rl EXCEPT ![Len(rl)] = Seg(t.kind, t.off, t.len + s.len)]
         ELSE Append(rl, s)

RECURSIVE Concat(_, _)
Concat(a, b) == IF b = <<>> THEN a ELSE Concat(AppendSeg(a, Head(b)), Tail(b))

RECURSIVE ByteLen(_)
ByteLen(rl) == IF rl = <<>> THEN 0 ELSE Head(rl).len + ByteLen(Tail(rl))

Min(a, b) == IF a <= b THEN a ELSE b

RECURSIVE Slice(_, _, _)
Slice(rl, from, n) ==
    IF n <= 0 \/ rl = <<>> THEN <<>>
    ELSE LET h == Head(rl) IN
         IF from >= h.len THEN Slice(Tail(rl), from - h.len, n)
         ELSE LET take == Min(h.len - from, n) IN
              Concat(AppendSeg(<<>>, Seg(h.kind, h.off + from, take)),
                     Slice(Tail(rl), 0, n - take))

ZeroRun(n) == <<Seg("zero", 0, n)>>

Overwrite(buf, pos, data) ==
    LET n == ByteLen(data) IN
    Concat(Concat(Slice(buf, 0, pos), data),
           Slice(buf, pos + n, ByteLen(buf) - pos - n))

---------------------------------------------------------------------------
(* PCM streams: samples, their little-endian bytes, and reading them back *)

SampleOf(kind, i) ==
    CASE kind = "tone"  -> ((i * 7919) % 2001) - 1000
      [] kind = "soft"  -> IF i % 2 = 0 THEN -20 ELSE 20
      [] kind = "quiet" -> IF i % 2 = 0 THEN 0 ELSE 30
      [] kind = "flat"  -> -1234
      [] kind = "heap"  -> ((i * 31) % 997) - 498
      [] OTHER          -> 0

PatternByte(kind, j) ==
    LET u == SampleOf(kind, j \div 2) % 65536 IN
    IF j % 2 = 0 THEN u % 256 ELSE u \div 256

RECURSIVE ByteAt(_, _)
ByteAt(rl, j) ==
    LET h == Head(rl) IN
    IF j < h.len THEN PatternByte(h.kind, h.off + j) ELSE ByteAt(Tail(rl), j - h.len)

Int16(lo, hi) == LET u == lo + 256 * hi IN IF u >= 32768 THEN u - 65536 ELSE u

SampleAt(rl, i) == Int16(ByteAt(rl, 2 * i), ByteAt(rl, 2 * i + 1))

Abs(x) == IF x < 0 THEN -x ELSE x

(* Mutant: the comparison with the threshold is inclusive. *)
HasVariation_Inclusive(rl, sample_count, threshold) ==
    \E i \in 1..(sample_count - 1) :
        Abs(SampleAt(rl, i) - SampleAt(rl, i - 1)) >= threshold

HasVariation(rl, sample_count, threshold) ==
    \E i \in 1..(sample_count - 1) :
        Abs(SampleAt(rl, i) - SampleAt(rl, i - 1)) > threshold

Bytes(rl) == [j \in 1..ByteLen(rl) |-> ByteAt(rl, j - 1)]

---------------------------------------------------------------------------
(* Board support layer: the three device calls the manager makes.          *)
(* m is the manager state during an operation:                             *)
(*   [is_streaming, buf, w, r, en, dev, played, failed].                   *)
(* A write that fails is an i2s_channel_write error: the channel has been  *)
(* enabled by then and none of the buffer counts as played.                *)

DevCall(fn, data, ok) == [fn |-> fn, data |-> data, ok |-> ok]

DataWrites(d) == Cardinality({i \in 1..Len(d) : d[i].fn # "stop"})

(* The outcome of the next device write of the running operation: the      *)
(* failAt-th write of the operation fails (0: none does).                  *)
WriteOk(m, failAt) == DataWrites(m.dev) + 1 # failAt

bsp_audio_stop(m) ==
    [m EXCEPT !.en = FALSE, !.dev = Append(@, DevCall("stop", <<>>, TRUE))]

bsp_play_audio_stream(m, data, ok) ==
    [m EXCEPT !.en = TRUE,
              !.dev = Append(@, DevCall("stream", data, ok)),
              !.played = IF ok THEN Concat(@, data) ELSE @,
              !.failed = @ \/ ~ok]

bsp_play_audio(m, data, ok) ==
    [m EXCEPT !.en = ~ok,
              !.dev = Append(@, DevCall("play", data, ok)),
              !.played = IF ok THEN Concat(@, data) ELSE @,
              !.failed = @ \/ ~ok]

(* Mutant: a short write is not told from a complete one. *)
WriteComplete_Unchecked(total_written, data_len) == TRUE

(* The write loop of bsp_play_audio ends with total_written bytes written:  *)
(* all of them, or fewer when i2s_channel_write returned an error.         *)
WriteComplete(total_written, data_len) == total_written = data_len

(* AudioManager::play_audio, which returns the status of bsp_play_audio:   *)
(* an empty clip is refused, a disabled channel that cannot be enabled     *)
(* ends the call with the error of i2s_channel_enable, a short write       *)
(* gives ESP_FAIL, and a complete one is followed by bsp_audio_stop and    *)
(* ESP_OK.                                                                 *)
PlayAudio(m, data, data_len, enableOk, total_written) ==
    IF data_len = 0
    THEN [m |-> m, ret |-> "ESP_ERR_INVALID_ARG", total_written |-> 0]
    ELSE IF ~m.en /\ ~enableOk
    THEN [m |-> m, ret |-> "ESP_ERR_INVALID_STATE", total_written |-> 0]
    ELSE LET ok == WriteComplete(total_written, data_len) IN
         [m |-> bsp_play_audio(m, data, ok),
          ret |-> IF ok THEN "ESP_OK" ELSE "ESP_FAIL",
          total_written |-> total_written]

---------------------------------------------------------------------------
(* AudioManager: streaming playback *)

(* Mutant: the wrapped form is used whatever the order of the cursors. *)
DataAvailable_NoCaseSplit(w, r) == STREAMING_BUFFER_SIZE - r + w

DataAvailable(w, r) ==
    IF w >= r THEN w - r ELSE STREAMING_BUFFER_SIZE - r + w

RemainingBytes(m) ==
    IF m.w >= m.r
    THEN Slice(m.buf, m.r, m.w - m.r)
    ELSE Concat(Slice(m.buf, m.r, STREAMING_BUFFER_SIZE - m.r), Slice(m.buf, 0, m.w))

(* streaming_playback_task: with a chunk available and the read cursor    *)
(* odd, the task advances the cursor by one byte before it copies.         *)
RealignNeeded(m) == DataAvailable(m.w, m.r) >= play_chunk_size /\ m.r % 2 # 0

(* Mutant: the cursors are reset but the storage is not zeroed. *)
ClearBuffer_CursorsOnly(m) == [m EXCEPT !.w = 0, !.r = 0]

ClearBuffer(m) ==
    [m EXCEPT !.buf = ZeroRun(STREAMING_BUFFER_SIZE), !.w = 0, !.r = 0]

(* Mutant: the residual bytes are played whatever their amount. *)
StopDrain_NoCap(m, failAt) ==
    LET remaining_data == DataAvailable(m.w, m.r) IN
    IF remaining_data > 0
    THEN LET ok == WriteOk(m, failAt)
             m1 == bsp_play_audio(m, RemainingBytes(m), ok)
         IN  IF ok THEN m1 ELSE bsp_audio_stop(m1)
    ELSE bsp_audio_stop(m)

StopDrain(m, failAt) ==
    LET remaining_data == DataAvailable(m.w, m.r) IN
    IF remaining_data > 0 /\ remaining_data <= TAIL_LIMIT
    THEN LET ok == WriteOk(m, failAt)
             m1 == bsp_play_audio(m, RemainingBytes(m), ok)
         IN  IF ok THEN m1 ELSE bsp_audio_stop(m1)
    ELSE bsp_audio_stop(m)

(* Mutant: the teardown runs whether or not a session is active. *)
StopStreaming_Unguarded(m, failAt) ==
    ClearBuffer(StopDrain(bsp_audio_stop([m EXCEPT !.is_streaming = FALSE]), failAt))

StopStreaming(m, failAt) ==
    IF m.is_streaming
    THEN ClearBuffer(StopDrain(bsp_audio_stop([m EXCEPT !.is_streaming = FALSE]), failAt))
    ELSE m

(* Mutant: the session is re-armed without the teardown of the old one. *)
StartStreaming_NoTeardown(m, failAt) ==
    [ClearBuffer(m) EXCEPT !.is_streaming = TRUE, !.played = <<>>, !.failed = FALSE]

StartStreaming(m, failAt) ==
    LET m1 == StopStreaming(m, failAt) IN
    [ClearBuffer(m1) EXCEPT !.is_streaming = TRUE, !.played = <<>>, !.failed = FALSE]

(* Mutant: the residual bytes are played only up to the bound of stop. *)
FinishStreaming_Capped(m, failAt) ==
    IF ~m.is_streaming THEN m
    ELSE [StopDrain(bsp_audio_stop(m), failAt) EXCEPT !.is_streaming = FALSE, !.w = 0, !.r = 0]

(* Mutant: the residual bytes are dropped, not played. *)
FinishStreaming_NoDrain(m, failAt) ==
    IF ~m.is_streaming THEN m
    ELSE [bsp_audio_stop(bsp_audio_stop(m)) EXCEPT !.is_streaming = FALSE, !.w = 0, !.r = 0]

FinishStreaming(m, failAt) ==
    IF ~m.is_streaming THEN m
    ELSE LET m0 == bsp_audio_stop(m)
             remaining_data == m0.w - m0.r
             m2 == IF remaining_data = 0 THEN bsp_audio_stop(m0)
                   ELSE IF Wrapped(remaining_data) THEN m0   \* malloc returns NULL
                   ELSE LET ok == WriteOk(m0, failAt)
                            m1 == bsp_play_audio(m0, Slice(m0.buf, m0.r, remaining_data), ok)
                        IN  IF ok THEN m1 ELSE bsp_audio_stop(m1)
         IN  [m2 EXCEPT !.is_streaming = FALSE, !.w = 0, !.r = 0]

(* Mutant: the task leaves without clearing the ring. *)
PlaybackTaskExit_NoClear(m, failAt) ==
    LET m0 == bsp_audio_stop(m)
        remaining_data == DataAvailable(m0.w, m0.r)
        m2 == IF remaining_data > 0 /\ remaining_data <= TAIL_LIMIT
              THEN LET ok == WriteOk(m0, failAt)
                       m1 == bsp_play_audio(m0, RemainingBytes(m0), ok)
                   IN  IF ok THEN bsp_audio_stop(m1) ELSE m1
              ELSE m0
    IN  bsp_audio_stop(m2)

(* The code streaming_playback_task runs once its loop has ended.  No task *)
(* is created on it; the operator gives what that code does to a manager   *)
(* state, and the properties apply it to the states the manager reaches.   *)
PlaybackTaskExit(m, failAt) ==
    LET m0 == bsp_audio_stop(m)
        remaining_data == DataAvailable(m0.w, m0.r)
        m2 == IF remaining_data > 0 /\ remaining_data <= TAIL_LIMIT
              THEN LET ok == WriteOk(m0, failAt)
                       m1 == bsp_play_audio(m0, RemainingBytes(m0), ok)
                   IN  IF ok THEN bsp_audio_stop(m1) ELSE m1
              ELSE m0
    IN  bsp_audio_stop(ClearBuffer(m2))

(* streaming_playback_task: one chunk is copied out of the ring, in two    *)
(* parts when it spans the end, and the read cursor moves past it.         *)
CopyChunk(m) ==
    IF m.r + play_chunk_size <= STREAMING_BUFFER_SIZE
    THEN [m |-> [m EXCEPT !.r = (m.r + play_chunk_size) % STREAMING_BUFFER_SIZE],
          chunk |-> Slice(m.buf, m.r, play_chunk_size)]
    ELSE LET first_chunk_size == STREAMING_BUFFER_SIZE - m.r
             second_chunk_size == play_chunk_size - first_chunk_size
         IN  [m |-> [m EXCEPT !.r = second_chunk_size],
              chunk |-> Concat(Slice(m.buf, m.r, first_chunk_size),
                               Slice(m.buf, 0, second_chunk_size))]

(* One turn of the loop up to the copy: the state is read; with a chunk    *)
(* available (after the realignment of an odd read cursor) it is copied,   *)
(* otherwise the task sleeps 3 or 8 ms and tries again.                    *)
TaskPoll(m, chunk) ==
    IF ~m.is_streaming THEN [m |-> m, pc |-> "exit", chunk |-> chunk]
    ELSE IF DataAvailable(m.w, m.r) >= play_chunk_size
    THEN LET m1 == IF RealignNeeded(m)
                   THEN [m EXCEPT !.r = (m.r + 1) % STREAMING_BUFFER_SIZE]
                   ELSE m
         IN  IF DataAvailable(m1.w, m1.r) < play_chunk_size
             THEN [m |-> m1, pc |-> "loop", chunk |-> chunk]
             ELSE LET c == CopyChunk(m1) IN [m |-> c.m, pc |-> "play", chunk |-> c.chunk]
    ELSE [m |-> m, pc |-> "loop", chunk |-> chunk]

(* The check the task makes on the chunk it has copied. *)
PlaybackHasSignal(chunk) ==
    HasVariation(chunk, play_chunk_size \div 2, PLAY_VARIATION_THRESHOLD)

(* Mutant: a failed write takes the task out of its loop. *)
TaskPlay_ExitOnFailure(m, chunk, failAt) ==
    IF PlaybackHasSignal(chunk) /\ m.is_streaming
    THEN LET ok == WriteOk(m, failAt)
             m1 == bsp_play_audio_stream(m, chunk, ok)
         IN  IF ok THEN [m |-> m1, pc |-> "loop"]
             ELSE [m |-> bsp_audio_stop(m1), pc |-> "exit"]
    ELSE IF ~m.is_streaming THEN [m |-> m, pc |-> "exit"]
    ELSE [m |-> m, pc |-> "loop"]

(* The rest of the turn: a chunk with signal is written if the state is    *)
(* still Active, and a failed write is followed by bsp_audio_stop and a    *)
(* sleep of 50 ms; with the state Idle the task leaves the loop; a chunk   *)
(* without signal is skipped.                                              *)
TaskPlay(m, chunk, failAt) ==
    IF PlaybackHasSignal(chunk) /\ m.is_streaming
    THEN LET ok == WriteOk(m, failAt)
             m1 == bsp_play_audio_stream(m, chunk, ok)
         IN  [m |-> IF ok THEN m1 ELSE bsp_audio_stop(m1), pc |-> "loop"]
    ELSE IF ~m.is_streaming THEN [m |-> m, pc |-> "exit"]
    ELSE [m |-> m, pc |-> "loop"]

(* feed_streaming_audio: validation *)

(* Mutant: the size floor is 32 bytes. *)
TooShort_Floor32(len) == len < 2 * 16

TooShort(len) == len < MIN_PACKET_LEN

(* Mutant: the parity check tests bit 1 of the length, not bit 0. *)
OddLength_WrongBit(len) == (len \div 2) % 2 # 0

(* Mutant: the parity check is missing. *)
OddLength_Unchecked(len) == FALSE

OddLength(len) == len % 2 # 0

NoVariation(data, len) ==
    len >= MIN_CHECK_LEN /\ ~HasVariation(data, len \div 2, FEED_VARIATION_THRESHOLD)

(* feed_streaming_audio: a payload of at least one chunk *)

RECURSIVE PlaySlices(_, _, _, _, _)
PlaySlices(m, data, len, offset, failAt) ==
    IF offset + chunk_size <= len /\ m.is_streaming
    THEN LET ok == WriteOk(m, failAt)
             m1 == bsp_play_audio_stream(m, Slice(data, offset, chunk_size), ok)
         IN  IF ~ok THEN [m |-> m1, offset |-> offset]
             ELSE PlaySlices(m1, data, len, offset + chunk_size, failAt)
    ELSE [m |-> m, offset |-> offset]

(* Mutant: the tail is copied from the start of the payload. *)
StoreTail_FromStart(m, data, offset, remaining) ==
    IF remaining > 0 /\ m.is_streaming /\ remaining < STREAMING_BUFFER_SIZE
    THEN [m EXCEPT !.buf = Overwrite(@, 0, Slice(data, 0, remaining)),
                   !.w = remaining, !.r = 0]
    ELSE m

(* Mutant: the two cursors are assigned each other's value. *)
StoreTail_CursorsSwapped(m, data, offset, remaining) ==
    IF remaining > 0 /\ m.is_streaming /\ remaining < STREAMING_BUFFER_SIZE
    THEN [m EXCEPT !.buf = Overwrite(@, 0, Slice(data, offset, remaining)),
                   !.w = 0, !.r = remaining]
    ELSE m

StoreTail(m, data, offset, remaining) ==
    IF remaining > 0 /\ m.is_streaming /\ remaining < STREAMING_BUFFER_SIZE
    THEN [m EXCEPT !.buf = Overwrite(@, 0, Slice(data, offset, remaining)),
                   !.w = remaining, !.r = 0]
    ELSE m

FeedLarge(m, data, len, failAt) ==
    LET res == PlaySlices(m, data, len, 0, failAt) IN
    StoreTail(res.m, data, res.offset, len - res.offset)

(* feed_streaming_audio: a payload shorter than one chunk *)

(* Mutant: a failed write ends the session. *)
MergeAndPlay_IdleOnFailure(m, data, buffered_data, failAt) ==
    LET ok == WriteOk(m, failAt)
        combined == Concat(Slice(m.buf, m.r, buffered_data), data)
        m1 == bsp_play_audio_stream(m, combined, ok)
    IN  IF ok THEN [m1 EXCEPT !.w = 0, !.r = 0] ELSE [m1 EXCEPT !.is_streaming = FALSE]

MergeAndPlay(m, data, buffered_data, failAt) ==
    LET ok == WriteOk(m, failAt)
        combined == Concat(Slice(m.buf, m.r, buffered_data), data)
        m1 == bsp_play_audio_stream(m, combined, ok)
    IN  IF ok THEN [m1 EXCEPT !.w = 0, !.r = 0] ELSE m1

(* Mutant: a payload that ends exactly at the end of the storage is taken. *)
AppendToBuffer_Inclusive(m, data, len) ==
    IF m.w + len <= STREAMING_BUFFER_SIZE
    THEN [m EXCEPT !.buf = Overwrite(@, m.w, data), !.w = m.w + len]
    ELSE m

(* Mutant: the bytes are copied but the write cursor is not advanced. *)
AppendToBuffer_NoAdvance(m, data, len) ==
    IF m.w + len < STREAMING_BUFFER_SIZE
    THEN [m EXCEPT !.buf = Overwrite(@, m.w, data)]
    ELSE m

AppendToBuffer(m, data, len) ==
    IF m.w + len < STREAMING_BUFFER_SIZE
    THEN [m EXCEPT !.buf = Overwrite(@, m.w, data), !.w = m.w + len]
    ELSE m

(* Mutant: the merge is made only above one chunk, not at one chunk. *)
FeedSmall_StrictThreshold(m, data, len, failAt) ==
    LET buffered_data == m.w - m.r
        total == buffered_data + len
    IN  IF SizeGE(total, chunk_size + 1)
        THEN IF Wrapped(total) \/ Wrapped(buffered_data) THEN m
             ELSE MergeAndPlay(m, data, buffered_data, failAt)
        ELSE AppendToBuffer(m, data, len)

(* With read_pos > write_pos the subtraction wraps.  A wrapped sum cannot   *)
(* be allocated and nothing happens; a sum that wraps back to a small      *)
(* value sizes the allocation while the copy still takes the wrapped       *)
(* count, which CursorOrder shows no behaviour of Spec reaches.            *)
FeedSmall(m, data, len, failAt) ==
    LET buffered_data == m.w - m.r
        total == buffered_data + len
    IN  IF SizeGE(total, chunk_size)
        THEN IF Wrapped(total) \/ Wrapped(buffered_data) THEN m
             ELSE MergeAndPlay(m, data, buffered_data, failAt)
        ELSE AppendToBuffer(m, data, len)

PayloadData(p) == <<Seg(p.kind, 0, p.len)>>

(* Mutant: the state is not checked on entry. *)
FeedStreaming_NoIdleCheck(m, p, failAt) ==
    LET data == PayloadData(p) IN
    IF TooShort(p.len) THEN m
    ELSE IF OddLength(p.len) THEN m
    ELSE IF NoVariation(data, p.len) THEN m
    ELSE IF p.len >= chunk_size THEN FeedLarge(m, data, p.len, failAt)
    ELSE FeedSmall(m, data, p.len, failAt)

FeedStreaming(m, p, failAt) ==
    LET data == PayloadData(p) IN
    IF ~m.is_streaming THEN m
    ELSE IF TooShort(p.len) THEN m
    ELSE IF OddLength(p.len) THEN m
    ELSE IF NoVariation(data, p.len) THEN m
    ELSE IF p.len >= chunk_size THEN FeedLarge(m, data, p.len, failAt)
    ELSE FeedSmall(m, data, p.len, failAt)

(* The cursors feed_streaming_audio assigns on the path it takes: both     *)
(* when it stores a tail or has played a merge, write_pos alone when it    *)
(* appends.  The state is Active at each of these stores.                  *)
FeedStores(m, p, failAt) ==
    LET data == PayloadData(p)
        both == {"streaming_write_pos", "streaming_read_pos"}
    IN  IF ~m.is_streaming \/ TooShort(p.len) \/ OddLength(p.len) \/ NoVariation(data, p.len)
        THEN {}
        ELSE IF p.len >= chunk_size
        THEN LET res == PlaySlices(m, data, p.len, 0, failAt)
                 remaining == p.len - res.offset
             IN  IF remaining > 0 /\ res.m.is_streaming /\ remaining < STREAMING_BUFFER_SIZE
                 THEN both ELSE {}
        ELSE LET buffered_data == m.w - m.r
                 total == buffered_data + p.len
             IN  IF SizeGE(total, chunk_size)
                 THEN IF Wrapped(total) \/ Wrapped(buffered_data) THEN {}
                      ELSE IF WriteOk(m, failAt) THEN both ELSE {}
                 ELSE IF m.w + p.len < STREAMING_BUFFER_SIZE
                      THEN {"streaming_write_pos"} ELSE {}

---------------------------------------------------------------------------
(* AudioManager: recording, and the send queue *)

(* The heap blocks of the duplicated chunks.  h is [live, fault]: the      *)
(* number of blocks allocated and not yet freed, and whether free has been *)
(* called with no such block left.                                         *)
EmptyHeap == [live |-> 0, fault |-> FALSE]

Malloc(h) == [h EXCEPT !.live = @ + 1]

Free(h) ==
    IF h.live > 0
    THEN [h EXCEPT !.live = @ - 1]
    ELSE [h EXCEPT !.fault = TRUE]

(* Mutant: the flag is set but the length is kept. *)
StartRecording_NoReset(rec, len) == [is_recording |-> TRUE, recording_length |-> len]

StartRecording(rec, len) ==
    IF ~rec
    THEN [is_recording |-> TRUE, recording_length |-> 0]
    ELSE [is_recording |-> rec, recording_length |-> len]

StopRecording(rec) == IF rec THEN FALSE ELSE rec

(* Mutant: the sample count is compared with the size in bytes. *)
StoreChunk_BytesBound(len) ==
    IF len + pcm_data_size \div 2 <= recording_buffer_size
    THEN len + pcm_data_size \div 2
    ELSE len

(* audio_record_task: the chunk goes to the recording buffer if it fits. *)
StoreChunk(len) ==
    IF len + pcm_data_size \div 2 <= recording_buffer_size \div 2
    THEN len + pcm_data_size \div 2
    ELSE len

AudioQueueItem(data, len) == [data |-> data, len |-> len]

(* Mutant: the item is sent without asking the queue for a free slot. *)
SendChunk_NoSpaceCheck(q, h, allocOk) ==
    IF ~allocOk
    THEN [queue |-> q, heap |-> h, queued |-> FALSE, dropped |-> FALSE]
    ELSE [queue |-> Append(q, AudioQueueItem("data_to_send", pcm_data_size)),
          heap |-> Malloc(h), queued |-> TRUE, dropped |-> FALSE]

(* audio_record_task: the chunk is duplicated (unless malloc returns NULL) *)
(* and the duplicate is queued if the queue has room, and freed if it has  *)
(* none.                                                                   *)
SendChunk(q, h, allocOk) ==
    IF ~allocOk
    THEN [queue |-> q, heap |-> h, queued |-> FALSE, dropped |-> FALSE]
    ELSE IF SEND_QUEUE_LENGTH - Len(q) > 0
    THEN [queue |-> Append(q, AudioQueueItem("data_to_send", pcm_data_size)),
          heap |-> Malloc(h), queued |-> TRUE, dropped |-> FALSE]
    ELSE [queue |-> q, heap |-> Free(Malloc(h)), queued |-> FALSE, dropped |-> TRUE]

(* Mutant: the item is released only when the client is connected. *)
ReceiveItem_FreeWhenSent(q, h, connected) ==
    [queue |-> Tail(q), heap |-> IF connected THEN Free(h) ELSE h]

(* The main loop: one item is taken, sent if the client is connected, and  *)
(* its data freed.                                                         *)
ReceiveItem(q, h, connected) == [queue |-> Tail(q), heap |-> Free(h)]

---------------------------------------------------------------------------
(* Inputs *)

Payload(kind, len) == [kind |-> kind, len |-> len]

NoPayload == Payload("none", 0)

(* Payloads delivered by the WebSocket DATA_BINARY event: below the size   *)
(* floor (40, 127), odd (127, 799, 801), without variation (flat, quiet),  *)
(* shorter than a chunk (128..798), one chunk, and several chunks with and *)
(* without a tail.                                                         *)
Payloads ==
    { Payload("tone", 40),   Payload("tone", 127),  Payload("tone", 128),
      Payload("tone", 200),  Payload("tone", 600),  Payload("tone", 798),
      Payload("tone", 799),  Payload("tone", 800),  Payload("tone", 801),
      Payload("tone", 1400), Payload("tone", 2410),
      Payload("soft", 800),  Payload("flat", 200),  Payload("quiet", 800) }

Valid(p) == ~TooShort(p.len) /\ ~OddLength(p.len) /\ ~NoVariation(PayloadData(p), p.len)

---------------------------------------------------------------------------
(* State machine *)

Snapshot ==
    [is_streaming |-> is_streaming, buf |-> streaming_buffer,
     w |-> streaming_write_pos, r |-> streaming_read_pos, en |-> tx_channel_enabled]

Cur ==
    [is_streaming |-> is_streaming, buf |-> streaming_buffer,
     w |-> streaming_write_pos, r |-> streaming_read_pos, en |-> tx_channel_enabled,
     dev |-> <<>>, played |-> played, failed |-> failed]

Store(m, op) ==
    /\ is_streaming' = m.is_streaming
    /\ streaming_buffer' = m.buf
    /\ streaming_write_pos' = m.w
    /\ streaming_read_pos' = m.r
    /\ tx_channel_enabled' = m.en
    /\ dev' = m.dev
    /\ played' = m.played
    /\ failed' = m.failed
    /\ last' = op
    /\ pre' = Snapshot

Commit(m, op) == Store(m, op) /\ UNCHANGED <<recVars, callVars, taskVars, wsVars, appVars>>

Op(name, p, failAt) ==
    [op |-> name, payload |-> p, failAt |-> failAt,
     after |-> last.op, afterActive |-> last.op # "init" /\ pre.is_streaming]

Init ==
    /\ is_streaming = FALSE
    /\ streaming_buffer \in {ZeroRun(STREAMING_BUFFER_SIZE),
                             <<Seg("heap", 0, STREAMING_BUFFER_SIZE)>>}
    /\ streaming_write_pos = 0
    /\ streaming_read_pos = 0
    /\ tx_channel_enabled \in BOOLEAN
    /\ dev = <<>>
    /\ last = [op |-> "init", payload |-> NoPayload, failAt |-> 0,
               after |-> "init", afterActive |-> FALSE]
    /\ fed = <<>>
    /\ played = <<>>
    /\ failed = FALSE
    /\ pre = Snapshot
    /\ is_recording = FALSE
    /\ recording_length = 0
    /\ s_audio_send_queue = <<>>
    /\ heap = EmptyHeap
    /\ record_pc = "poll"
    /\ rlast = [op |-> "init", len |-> 0, rec |-> FALSE, q |-> <<>>, live |-> 0,
                queued |-> FALSE, dropped |-> FALSE, sent |-> FALSE,
                after |-> "init", afterRec |-> FALSE]
    /\ feed_pc = "idle"
    /\ feed_arg = NoPayload
    /\ feed_offset = 0
    /\ start_pc = "idle"
    /\ task_pc = "none"
    /\ play_buffer = <<>>
    /\ ws_pc = "idle"
    /\ remaining_size = 0
    /\ remaining_buffer = <<>>
    /\ current_state = "IDLE"
    /\ main_pc = "loop"
    /\ connected_ = FALSE

start_streaming_playback ==
    \E failAt \in 0..DataWrites(StartStreaming(Cur, 0).dev) :
        /\ Commit(StartStreaming(Cur, failAt), Op("start", NoPayload, failAt))
        /\ fed' = <<>>

stop_streaming_playback ==
    \E failAt \in 0..DataWrites(StopStreaming(Cur, 0).dev) :
        /\ Commit(StopStreaming(Cur, failAt), Op("stop", NoPayload, failAt))
        /\ fed' = fed

finish_streaming_playback ==
    \E failAt \in 0..DataWrites(FinishStreaming(Cur, 0).dev) :
        /\ Commit(FinishStreaming(Cur, failAt), Op("finish", NoPayload, failAt))
        /\ fed' = fed

feed_streaming_audio ==
    /\ Len(fed) < MaxFeeds
    /\ \E p \in Payloads :
        \E failAt \in 0..DataWrites(FeedStreaming(Cur, p, 0).dev) :
            /\ Commit(FeedStreaming(Cur, p, failAt), Op("feed", p, failAt))
            /\ fed' = Append(fed, p)

Next ==
    \/ start_streaming_playback
    \/ stop_streaming_playback
    \/ finish_streaming_playback
    \/ feed_streaming_audio

Spec == Init /\ [][Next]_vars

(* The manager under payloads of any size its interface admits            *)
(* (feed_streaming_audio takes a size_t len): the payloads of ApiPayloads  *)
(* include sizes above the 8 KB receive buffer of the WebSocket client,    *)
(* whose tail after a failed device write exceeds the drain bound of stop  *)
(* (17184 bytes when the first write fails) or meets it (16384 bytes when  *)
(* the second does).                                                       *)
ApiPayloads ==
    { Payload("tone", 128), Payload("tone", 1400),
      Payload("tone", TAIL_LIMIT + chunk_size) }

feed_streaming_audio_api ==
    /\ Len(fed) < MaxFeeds
    /\ \E p \in ApiPayloads :
        \E failAt \in 0..DataWrites(FeedStreaming(Cur, p, 0).dev) :
            /\ Commit(FeedStreaming(Cur, p, failAt), Op("feed", p, failAt))
            /\ fed' = Append(fed, p)

NextApi ==
    \/ start_streaming_playback
    \/ stop_streaming_playback
    \/ finish_streaming_playback
    \/ feed_streaming_audio_api

SpecApi == Init /\ [][NextApi]_vars

(* The clips handed to play_audio: none, one capture chunk, a prompt. *)
Clips == { Payload("tone", 0), Payload("tone", pcm_data_size), Payload("tone", 20000) }

(* play_audio, called by the main loop after the connection is made        *)
(* (main.cc:201).  The inputs are the clip, whether the channel can be     *)
(* enabled, and how many bytes the device took before the loop ended.      *)
(* The clip is no part of a streaming session: the record of the session   *)
(* (played, failed) is left as it is.                                      *)
play_audio ==
    \E p \in Clips :
        \E enableOk \in BOOLEAN :
            \E total_written \in {0, p.len \div 2, p.len} :
                LET res == PlayAudio(Cur, PayloadData(p), p.len, enableOk, total_written) IN
                /\ Commit([res.m EXCEPT !.played = played, !.failed = failed],
                          [op |-> "play", payload |-> p, failAt |-> 0,
                                  after |-> last.op, afterActive |-> FALSE,
                                  ret |-> res.ret, total_written |-> res.total_written])
                /\ fed' = fed

(* The calls of the main loop and the session teardown around play_audio. *)
NextPlay ==
    \/ play_audio
    \/ start_streaming_playback
    \/ stop_streaming_playback
    \/ finish_streaming_playback

SpecPlay == Init /\ [][NextPlay]_vars

(* feed_streaming_audio as a function of the ring it finds.  In the       *)
(* program the read cursor is never advanced, so the small path appends    *)
(* only below one chunk from the start of the storage; its capacity test   *)
(* is met with the cursors a reader would leave near the end of the        *)
(* storage, and InitRing draws them from there: the write cursor at most   *)
(* one minimal payload below the end, and less than one chunk unread.      *)
RingCursors ==
    { [w |-> w, r |-> w - b] :
        w \in {STREAMING_BUFFER_SIZE - chunk_size, STREAMING_BUFFER_SIZE - 2 * MIN_PACKET_LEN,
               STREAMING_BUFFER_SIZE - MIN_PACKET_LEN, STREAMING_BUFFER_SIZE - 2},
        b \in {0, 200, 600} }

InitRing ==
    /\ is_streaming = TRUE
    /\ streaming_buffer = <<Seg("heap", 0, STREAMING_BUFFER_SIZE)>>
    /\ \E c \in RingCursors :
        /\ streaming_write_pos = c.w
        /\ streaming_read_pos = c.r
    /\ tx_channel_enabled \in BOOLEAN
    /\ dev = <<>>
    /\ last = [op |-> "init", payload |-> NoPayload, failAt |-> 0,
               after |-> "init", afterActive |-> FALSE]
    /\ fed = <<>>
    /\ played = <<>>
    /\ failed = FALSE
    /\ pre = Snapshot
    /\ is_recording = FALSE
    /\ recording_length = 0
    /\ s_audio_send_queue = <<>>
    /\ heap = EmptyHeap
    /\ record_pc = "poll"
    /\ rlast = [op |-> "init", len |-> 0, rec |-> FALSE, q |-> <<>>, live |-> 0,
                queued |-> FALSE, dropped |-> FALSE, sent |-> FALSE,
                after |-> "init", afterRec |-> FALSE]
    /\ feed_pc = "idle"
    /\ feed_arg = NoPayload
    /\ feed_offset = 0
    /\ start_pc = "idle"
    /\ task_pc = "none"
    /\ play_buffer = <<>>
    /\ ws_pc = "idle"
    /\ remaining_size = 0
    /\ remaining_buffer = <<>>
    /\ current_state = "IDLE"
    /\ main_pc = "loop"
    /\ connected_ = FALSE

NextRing ==
    \/ feed_streaming_audio
    \/ finish_streaming_playback

SpecRing == InitRing /\ [][NextRing]_vars

(* The capture side.  The streaming side stays as constructed. *)
RecStep(op, queued, dropped, sent) ==
    [op |-> op, len |-> recording_length, rec |-> is_recording, q |-> s_audio_send_queue,
     live |-> heap.live, queued |-> queued, dropped |-> dropped, sent |-> sent,
     after |-> rlast.op, afterRec |-> rlast.rec]

start_recording ==
    LET a == StartRecording(is_recording, recording_length) IN
    /\ is_recording' = a.is_recording
    /\ recording_length' = a.recording_length
    /\ rlast' = RecStep("start_recording", FALSE, FALSE, FALSE)
    /\ UNCHANGED <<s_audio_send_queue, heap, record_pc, streamVars, callVars, taskVars, wsVars, appVars>>

stop_recording ==
    /\ is_recording' = StopRecording(is_recording)
    /\ rlast' = RecStep("stop_recording", FALSE, FALSE, FALSE)
    /\ UNCHANGED <<recording_length, s_audio_send_queue, heap, record_pc, streamVars, callVars, taskVars, wsVars, appVars>>

(* The task finds the flag set and reads one chunk from the microphone. *)
audio_record_task_poll ==
    /\ record_pc = "poll"
    /\ is_recording
    /\ record_pc' = "chunk"
    /\ rlast' = RecStep("poll", FALSE, FALSE, FALSE)
    /\ UNCHANGED <<is_recording, recording_length, s_audio_send_queue, heap, streamVars, callVars, taskVars, wsVars, appVars>>

(* The task stores the chunk, publishes a copy and sleeps. *)
audio_record_task_chunk ==
    /\ record_pc = "chunk"
    /\ \E allocOk \in BOOLEAN :
        LET s == SendChunk(s_audio_send_queue, heap, allocOk) IN
        /\ recording_length' = StoreChunk(recording_length)
        /\ s_audio_send_queue' = s.queue
        /\ heap' = s.heap
        /\ rlast' = RecStep("chunk", s.queued, s.dropped, FALSE)
    /\ record_pc' = "poll"
    /\ UNCHANGED <<is_recording, streamVars, callVars, taskVars, wsVars, appVars>>

app_main_send_audio ==
    /\ s_audio_send_queue # <<>>
    /\ \E connected \in BOOLEAN :
        LET c == ReceiveItem(s_audio_send_queue, heap, connected) IN
        /\ s_audio_send_queue' = c.queue
        /\ heap' = c.heap
        /\ rlast' = RecStep("receive", FALSE, FALSE, connected)
    /\ UNCHANGED <<is_recording, recording_length, record_pc, streamVars, callVars, taskVars, wsVars, appVars>>

InitRec ==
    /\ Init
    /\ streaming_buffer = ZeroRun(STREAMING_BUFFER_SIZE)
    /\ ~tx_channel_enabled

NextRec ==
    \/ start_recording
    \/ stop_recording
    \/ audio_record_task_poll
    \/ audio_record_task_chunk
    \/ app_main_send_audio

SpecRec == InitRec /\ [][NextRec]_vars

(* The calls in steps.  feed_streaming_audio, finish, stop and the start   *)
(* of the reconnect branch run on the WebSocket task, one after another;   *)
(* the main loop calls start_streaming_playback after a wake word          *)
(* (main.cc:204), at any point of a feed in progress.  A step of a call    *)
(* runs from one read of the shared state to the next: the loop test of    *)
(* the large path and the write it guards are one step.                    *)
StepPayloads == { Payload("tone", 200), Payload("tone", 1400) }

(* The entry checks: the state, the length, the parity, the variation. *)
feed_enter ==
    /\ feed_pc = "idle"
    /\ Len(fed) < MaxFeeds
    /\ \E p \in StepPayloads :
        /\ Store(Cur, Op("feed_enter", p, 0))
        /\ fed' = Append(fed, p)
        /\ IF is_streaming /\ Valid(p)
           THEN /\ feed_pc' = IF p.len >= chunk_size THEN "large" ELSE "small"
                /\ feed_arg' = p
                /\ feed_offset' = 0
           ELSE UNCHANGED <<feed_pc, feed_arg, feed_offset>>
    /\ UNCHANGED <<start_pc, recVars, taskVars, wsVars, appVars>>

(* One turn of the slice loop: the test, and the write if it passes. *)
feed_slice ==
    /\ feed_pc = "large"
    /\ IF feed_offset + chunk_size <= feed_arg.len /\ is_streaming
       THEN \E failAt \in 0..1 :
               LET ok == WriteOk(Cur, failAt)
                   m1 == bsp_play_audio_stream(
                             Cur, Slice(PayloadData(feed_arg), feed_offset, chunk_size), ok)
               IN  /\ Store(m1, Op("feed_slice", feed_arg, failAt))
                   /\ feed_offset' = IF ok THEN feed_offset + chunk_size ELSE feed_offset
                   /\ feed_pc' = IF ok THEN "large" ELSE "tail"
       ELSE /\ Store(Cur, Op("feed_slice", feed_arg, 0))
            /\ feed_pc' = "tail"
            /\ feed_offset' = feed_offset
    /\ UNCHANGED <<fed, feed_arg, start_pc, recVars, taskVars, wsVars, appVars>>

(* The leftover of the large path. *)
feed_tail ==
    /\ feed_pc = "tail"
    /\ Store(StoreTail(Cur, PayloadData(feed_arg), feed_offset, feed_arg.len - feed_offset),
             Op("feed_tail", feed_arg, 0))
    /\ feed_pc' = "idle"
    /\ feed_arg' = NoPayload
    /\ feed_offset' = 0
    /\ UNCHANGED <<fed, start_pc, recVars, taskVars, wsVars, appVars>>

(* The small path, which reads the state no more after the entry check. *)
feed_small ==
    /\ feed_pc = "small"
    /\ \E failAt \in 0..DataWrites(FeedSmall(Cur, PayloadData(feed_arg), feed_arg.len, 0).dev) :
        Store(FeedSmall(Cur, PayloadData(feed_arg), feed_arg.len, failAt),
              Op("feed_small", feed_arg, failAt))
    /\ feed_pc' = "idle"
    /\ feed_arg' = NoPayload
    /\ feed_offset' = 0
    /\ UNCHANGED <<fed, start_pc, recVars, taskVars, wsVars, appVars>>

(* The other calls of the WebSocket task, made between two feeds. *)
ws_start_streaming_playback == feed_pc = "idle" /\ start_streaming_playback

ws_stop_streaming_playback == feed_pc = "idle" /\ stop_streaming_playback

ws_finish_streaming_playback == feed_pc = "idle" /\ finish_streaming_playback

(* start_streaming_playback on the main loop: the teardown of              *)
(* stop_streaming_playback up to its wait of 200 ms, ...                   *)
main_start_teardown ==
    /\ start_pc = "idle"
    /\ IF is_streaming
       THEN LET m0 == bsp_audio_stop([Cur EXCEPT !.is_streaming = FALSE]) IN
            \E failAt \in 0..DataWrites(StopDrain(m0, 0).dev) :
                /\ Store(StopDrain(m0, failAt), Op("start_teardown", NoPayload, failAt))
                /\ start_pc' = "wait"
       ELSE /\ Store(Cur, Op("start_teardown", NoPayload, 0))
            /\ start_pc' = "arm"
    /\ UNCHANGED <<fed, feed_pc, feed_arg, feed_offset, recVars, taskVars, wsVars, appVars>>

(* The playback task exists and has not left its loop. *)
TaskRunning == task_pc \in {"init", "loop", "play"}

(* ... the clearing of the ring that ends the teardown, after the wait     *)
(* "for the streaming task to exit": 200 ms, against sleeps of 3, 8 and    *)
(* 50 ms in the task and device writes of at most two chunks (50 ms of     *)
(* audio) in a feed, so that by the time the wait is over a running task   *)
(* has read the state and a feed that was in progress has returned, ...    *)
main_start_clear ==
    /\ start_pc = "wait"
    /\ ~TaskRunning
    /\ feed_pc = "idle"
    /\ Store(ClearBuffer(Cur), Op("start_clear", NoPayload, 0))
    /\ start_pc' = "arm"
    /\ UNCHANGED <<fed, feed_pc, feed_arg, feed_offset, recVars, taskVars, wsVars, appVars>>

(* ... the store that makes the session Active, ...                        *)
main_start_arm ==
    /\ start_pc = "arm"
    /\ Store([Cur EXCEPT !.is_streaming = TRUE, !.played = <<>>, !.failed = FALSE],
             Op("start_arm", NoPayload, 0))
    /\ fed' = <<>>
    /\ start_pc' = "zero"
    /\ UNCHANGED <<feed_pc, feed_arg, feed_offset, recVars, taskVars, wsVars, appVars>>

(* ... and the clearing of the ring that follows it.                       *)
main_start_zero ==
    /\ start_pc = "zero"
    /\ Store(ClearBuffer(Cur), Op("start_zero", NoPayload, 0))
    /\ start_pc' = "idle"
    /\ UNCHANGED <<fed, feed_pc, feed_arg, feed_offset, recVars, taskVars, wsVars, appVars>>

NextSteps ==
    \/ feed_enter
    \/ feed_slice
    \/ feed_tail
    \/ feed_small
    \/ ws_start_streaming_playback
    \/ ws_stop_streaming_playback
    \/ ws_finish_streaming_playback
    \/ main_start_teardown
    \/ main_start_clear
    \/ main_start_arm
    \/ main_start_zero

SpecSteps == Init /\ [][NextSteps]_vars

(* The playback task.  No call creates a task on streaming_playback_task   *)
(* (start_streaming_playback says so at audio_manager.cc:145); the         *)
(* creation below is that of the design the function was written for, a    *)
(* task that runs while the session is Active.  The calls of the manager   *)
(* are whole steps here; the task takes a step from one read of the state  *)
(* or blocking call to the next.                                           *)
(* The payloads are those a failed write leaves whole in the ring, where    *)
(* the task finds a chunk: 1400 bytes with signal for both checks, and one *)
(* chunk with signal for the check of the feed path only.                  *)
TaskPayloads == { Payload("tone", 1400), Payload("soft", 800) }

feed_streaming_audio_task ==
    /\ Len(fed) < MaxFeeds
    /\ \E p \in TaskPayloads :
        \E failAt \in 0..DataWrites(FeedStreaming(Cur, p, 0).dev) :
            /\ Commit(FeedStreaming(Cur, p, failAt), Op("feed", p, failAt))
            /\ fed' = Append(fed, p)

task_create ==
    /\ task_pc = "none"
    /\ is_streaming
    /\ task_pc' = "init"
    /\ UNCHANGED <<play_buffer, streamVars, recVars, callVars, wsVars, appVars>>

(* The buffer of one chunk is allocated and 320 bytes of silence are       *)
(* written; the status of that write is not looked at.                     *)
task_init ==
    /\ task_pc = "init"
    /\ \E allocOk \in BOOLEAN :
        IF allocOk
        THEN \E failAt \in 0..1 :
                /\ Store(bsp_play_audio_stream(Cur, ZeroRun(init_silence_size),
                                               WriteOk(Cur, failAt)),
                         Op("task_init", NoPayload, failAt))
                /\ task_pc' = "loop"
        ELSE /\ Store(Cur, Op("task_init", NoPayload, 0))
             /\ task_pc' = "none"
    /\ UNCHANGED <<fed, play_buffer, recVars, callVars, wsVars, appVars>>

task_poll ==
    /\ task_pc = "loop"
    /\ LET t == TaskPoll(Cur, play_buffer) IN
        /\ Store(t.m, Op("task_poll", NoPayload, 0))
        /\ task_pc' = t.pc
        /\ play_buffer' = t.chunk
    /\ UNCHANGED <<fed, recVars, callVars, wsVars, appVars>>

task_play ==
    /\ task_pc = "play"
    /\ \E failAt \in 0..DataWrites(TaskPlay(Cur, play_buffer, 0).m.dev) :
        LET t == TaskPlay(Cur, play_buffer, failAt) IN
        /\ Store(t.m, Op("task_play", NoPayload, failAt))
        /\ task_pc' = t.pc
    /\ UNCHANGED <<fed, play_buffer, recVars, callVars, wsVars, appVars>>

task_exit ==
    /\ task_pc = "exit"
    /\ \E failAt \in 0..DataWrites(PlaybackTaskExit(Cur, 0).dev) :
        Store(PlaybackTaskExit(Cur, failAt), Op("task_exit", NoPayload, failAt))
    /\ task_pc' = "none"
    /\ play_buffer' = <<>>
    /\ UNCHANGED <<fed, recVars, callVars, wsVars, appVars>>

NextTask ==
    \/ start_streaming_playback
    \/ stop_streaming_playback
    \/ finish_streaming_playback
    \/ feed_streaming_audio_task
    \/ task_create
    \/ task_init
    \/ task_poll
    \/ task_play
    \/ task_exit

SpecTask == Init /\ [][NextTask]_vars

(* The scheduler runs a task that is ready: a sleep ends and a device      *)
(* write returns.                                                          *)
TaskFairness ==
    /\ WF_vars(task_init)
    /\ WF_vars(task_poll)
    /\ WF_vars(task_play)
    /\ WF_vars(task_exit)

(* The task beside a main loop that starts sessions step by step and a    *)
(* WebSocket task that feeds and finishes them.                            *)
NextTaskFair ==
    \/ main_start_teardown
    \/ main_start_clear
    \/ main_start_arm
    \/ main_start_zero
    \/ finish_streaming_playback
    \/ feed_streaming_audio_task
    \/ task_create
    \/ task_init
    \/ task_poll
    \/ task_play
    \/ task_exit

SpecTaskFair == Init /\ [][NextTaskFair]_vars /\ TaskFairness

(* The teardown calls in steps beside the playback task.  The WebSocket    *)
(* task runs one callback at a time: a feed (main.cc:328), the start of    *)
(* the reconnect branch (312), finish_streaming_playback (340) or          *)
(* stop_streaming_playback (279).  A teardown takes a step up to its       *)
(* blocking device write and a step for the write and what follows it;     *)
(* remaining_size and remaining_buffer are its locals remaining_data and   *)
(* remaining_buffer.                                                       *)
ws_feed_streaming_audio == ws_pc = "idle" /\ feed_streaming_audio_task

ws_restart_streaming_playback == ws_pc = "idle" /\ start_streaming_playback

(* finish_streaming_playback: the state is read, the device stopped, the   *)
(* unread bytes measured and copied.                                       *)
finish_begin ==
    /\ ws_pc = "idle"
    /\ is_streaming
    /\ LET m0 == bsp_audio_stop(Cur)
           n == m0.w - m0.r
       IN  /\ Store(m0, Op("finish_begin", NoPayload, 0))
           /\ remaining_size' = n
           /\ remaining_buffer' = IF n > 0 THEN Slice(m0.buf, m0.r, n) ELSE <<>>
    /\ ws_pc' = "finish_drain"
    /\ UNCHANGED <<fed, recVars, callVars, taskVars, appVars>>

(* ... the copy is written (or, with nothing unread, the device stopped),  *)
(* the state set Idle and the cursors reset.                               *)
finish_end ==
    /\ ws_pc = "finish_drain"
    /\ \E failAt \in 0..(IF remaining_size > 0 THEN 1 ELSE 0) :
        LET m2 == IF remaining_size = 0 THEN bsp_audio_stop(Cur)
                  ELSE IF Wrapped(remaining_size) THEN Cur
                  ELSE LET ok == WriteOk(Cur, failAt)
                           m1 == bsp_play_audio(Cur, remaining_buffer, ok)
                       IN  IF ok THEN m1 ELSE bsp_audio_stop(m1)
        IN  Store([m2 EXCEPT !.is_streaming = FALSE, !.w = 0, !.r = 0],
                  Op("finish_end", NoPayload, failAt))
    /\ ws_pc' = "idle"
    /\ remaining_size' = 0
    /\ remaining_buffer' = <<>>
    /\ UNCHANGED <<fed, recVars, callVars, taskVars, appVars>>

NextDrain ==
    \/ ws_restart_streaming_playback
    \/ ws_feed_streaming_audio
    \/ finish_begin
    \/ finish_end
    \/ task_create
    \/ task_init
    \/ task_poll
    \/ task_play
    \/ task_exit

SpecDrain == Init /\ [][NextDrain]_vars

(* stop_streaming_playback on the WebSocket task: the state is set Idle,   *)
(* the device stopped, the unread bytes measured and, if they are at most  *)
(* 16384, copied, ...                                                      *)
stop_begin ==
    /\ ws_pc = "idle"
    /\ is_streaming
    /\ LET m0 == bsp_audio_stop([Cur EXCEPT !.is_streaming = FALSE])
           n == DataAvailable(m0.w, m0.r)
       IN  /\ Store(m0, Op("stop_begin", NoPayload, 0))
           /\ remaining_size' = n
           /\ remaining_buffer' = IF n > 0 /\ n <= TAIL_LIMIT THEN RemainingBytes(m0) ELSE <<>>
    /\ ws_pc' = "stop_drain"
    /\ UNCHANGED <<fed, recVars, callVars, taskVars, appVars>>

(* ... the copy is written, or the device stopped, ...                     *)
stop_drain ==
    /\ ws_pc = "stop_drain"
    /\ \E failAt \in 0..(IF remaining_size > 0 /\ remaining_size <= TAIL_LIMIT THEN 1 ELSE 0) :
        LET m2 == IF remaining_size > 0 /\ remaining_size <= TAIL_LIMIT
                  THEN LET ok == WriteOk(Cur, failAt)
                           m1 == bsp_play_audio(Cur, remaining_buffer, ok)
                       IN  IF ok THEN m1 ELSE bsp_audio_stop(m1)
                  ELSE bsp_audio_stop(Cur)
        IN  Store(m2, Op("stop_drain", NoPayload, failAt))
    /\ ws_pc' = "stop_wait"
    /\ UNCHANGED <<fed, remaining_size, remaining_buffer, recVars, callVars, taskVars, appVars>>

(* ... and after the wait of 200 ms, which a task in its loop does not     *)
(* outlast, the ring is cleared.                                           *)
stop_clear ==
    /\ ws_pc = "stop_wait"
    /\ ~TaskRunning
    /\ Store(ClearBuffer(Cur), Op("stop_clear", NoPayload, 0))
    /\ ws_pc' = "idle"
    /\ remaining_size' = 0
    /\ remaining_buffer' = <<>>
    /\ UNCHANGED <<fed, recVars, callVars, taskVars, appVars>>

(* The stop of the WebSocket task and the start of the main loop, in       *)
(* steps, beside the feeds and the playback task.                          *)
NextStop ==
    \/ main_start_teardown
    \/ main_start_clear
    \/ main_start_arm
    \/ main_start_zero
    \/ ws_feed_streaming_audio
    \/ stop_begin
    \/ stop_drain
    \/ stop_clear
    \/ task_create
    \/ task_init
    \/ task_poll
    \/ task_play
    \/ task_exit

SpecStop == Init /\ [][NextStop]_vars

---------------------------------------------------------------------------
(* The orchestration of main.cc: the wake sequence of the main loop and    *)
(* the DISCONNECTED callback of the WebSocket task, each in steps of one   *)
(* call or one store to current_state.  The outcome of a connection        *)
(* attempt is an input.  The capture task reads is_recording and writes    *)
(* neither variable of the orchestration; it takes no step here.           *)

RecStopped ==
    /\ is_recording' = StopRecording(is_recording)
    /\ rlast' = RecStep("stop_recording", FALSE, FALSE, FALSE)
    /\ UNCHANGED <<recording_length, s_audio_send_queue, heap, record_pc>>

RecStarted ==
    LET a == StartRecording(is_recording, recording_length) IN
    /\ is_recording' = a.is_recording
    /\ recording_length' = a.recording_length
    /\ rlast' = RecStep("start_recording", FALSE, FALSE, FALSE)
    /\ UNCHANGED <<s_audio_send_queue, heap, record_pc>>

(* main loop, state IDLE: the wake word is detected *)
main_wake ==
    /\ main_pc = "loop"
    /\ current_state = "IDLE"
    /\ current_state' = "SESSION_ACTIVE"
    /\ main_pc' = "stop_recording"
    /\ UNCHANGED <<connected_, streamVars, recVars, callVars, taskVars, wsVars>>

main_stop_recording ==
    /\ main_pc = "stop_recording"
    /\ RecStopped
    /\ main_pc' = "connect"
    /\ UNCHANGED <<current_state, connected_, streamVars, callVars, taskVars, wsVars>>

(* ... the connection is made if there is none: disconnect, connect, and   *)
(* a wait of at most 5 s for the CONNECTED event                           *)
main_connect ==
    /\ main_pc = "connect"
    /\ IF connected_ THEN connected_' = connected_ ELSE connected_' \in BOOLEAN
    /\ main_pc' = "check"
    /\ UNCHANGED <<current_state, streamVars, recVars, callVars, taskVars, wsVars>>

main_check ==
    /\ main_pc = "check"
    /\ IF connected_
       THEN main_pc' = "play_audio" /\ current_state' = current_state
       ELSE main_pc' = "loop" /\ current_state' = "IDLE"
    /\ UNCHANGED <<connected_, streamVars, recVars, callVars, taskVars, wsVars>>

main_play_audio ==
    /\ main_pc = "play_audio"
    /\ \E p \in Clips :
        \E enableOk \in BOOLEAN :
            \E total_written \in {0, p.len \div 2, p.len} :
                LET res == PlayAudio(Cur, PayloadData(p), p.len, enableOk, total_written) IN
                /\ Store([res.m EXCEPT !.played = played, !.failed = failed],
                         [op |-> "play", payload |-> p, failAt |-> 0,
                                 after |-> last.op, afterActive |-> FALSE,
                                 ret |-> res.ret, total_written |-> res.total_written])
                /\ fed' = fed
    /\ main_pc' = "start_recording"
    /\ UNCHANGED <<current_state, connected_, recVars, callVars, taskVars, wsVars>>

main_start_recording ==
    /\ main_pc = "start_recording"
    /\ RecStarted
    /\ main_pc' = "start_streaming"
    /\ UNCHANGED <<current_state, connected_, streamVars, callVars, taskVars, wsVars>>

main_start_streaming ==
    /\ main_pc = "start_streaming"
    /\ \E failAt \in 0..DataWrites(StartStreaming(Cur, 0).dev) :
        /\ Store(StartStreaming(Cur, failAt), Op("start", NoPayload, failAt))
        /\ fed' = <<>>
    /\ main_pc' = "loop"
    /\ UNCHANGED <<current_state, connected_, recVars, callVars, taskVars, wsVars>>

(* WebSocket task: the connection is lost; the event handler clears        *)
(* connected_ and the callback begins                                      *)
ws_disconnected ==
    /\ ws_pc = "idle"
    /\ connected_
    /\ connected_' = FALSE
    /\ RecStopped
    /\ ws_pc' = "stop_streaming"
    /\ UNCHANGED <<current_state, main_pc, remaining_size, remaining_buffer,
                   streamVars, callVars, taskVars>>

ws_stop_streaming ==
    /\ ws_pc = "stop_streaming"
    /\ \E failAt \in 0..DataWrites(StopStreaming(Cur, 0).dev) :
        /\ Store(StopStreaming(Cur, failAt), Op("stop", NoPayload, failAt))
        /\ fed' = fed
    /\ ws_pc' = "decide"
    /\ UNCHANGED <<remaining_size, remaining_buffer, recVars, callVars, taskVars, appVars>>

ws_decide ==
    /\ ws_pc = "decide"
    /\ IF current_state = "SESSION_ACTIVE"
       THEN ws_pc' = "reconnect" /\ current_state' = current_state
       ELSE ws_pc' = "idle_stop_recording" /\ current_state' = "IDLE"
    /\ UNCHANGED <<main_pc, connected_, remaining_size, remaining_buffer,
                   streamVars, recVars, callVars, taskVars>>

(* ... the one reconnection of a session: a wait of 1 s, disconnect,       *)
(* connect, and a wait of at most 5 s                                      *)
ws_reconnect ==
    /\ ws_pc = "reconnect"
    /\ connected_' \in BOOLEAN
    /\ ws_pc' = "check"
    /\ UNCHANGED <<current_state, main_pc, remaining_size, remaining_buffer,
                   streamVars, recVars, callVars, taskVars>>

ws_check ==
    /\ ws_pc = "check"
    /\ IF connected_
       THEN ws_pc' = "start_recording" /\ current_state' = current_state
       ELSE ws_pc' = "idle_stop_recording" /\ current_state' = "IDLE"
    /\ UNCHANGED <<main_pc, connected_, remaining_size, remaining_buffer,
                   streamVars, recVars, callVars, taskVars>>

ws_idle_stop_recording ==
    /\ ws_pc = "idle_stop_recording"
    /\ RecStopped
    /\ ws_pc' = "idle"
    /\ UNCHANGED <<remaining_size, remaining_buffer, streamVars, callVars, taskVars, appVars>>

ws_start_recording ==
    /\ ws_pc = "start_recording"
    /\ RecStarted
    /\ ws_pc' = "start_streaming"
    /\ UNCHANGED <<remaining_size, remaining_buffer, streamVars, callVars, taskVars, appVars>>

ws_start_streaming ==
    /\ ws_pc = "start_streaming"
    /\ \E failAt \in 0..DataWrites(StartStreaming(Cur, 0).dev) :
        /\ Store(StartStreaming(Cur, failAt), Op("start", NoPayload, failAt))
        /\ fed' = <<>>
    /\ ws_pc' = "idle"
    /\ UNCHANGED <<remaining_size, remaining_buffer, recVars, callVars, taskVars, appVars>>

NextApp ==
    \/ main_wake
    \/ main_stop_recording
    \/ main_connect
    \/ main_check
    \/ main_play_audio
    \/ main_start_recording
    \/ main_start_streaming
    \/ ws_disconnected
    \/ ws_stop_streaming
    \/ ws_decide
    \/ ws_reconnect
    \/ ws_check
    \/ ws_idle_stop_recording
    \/ ws_start_recording
    \/ ws_start_streaming

SpecApp == InitRec /\ [][NextApp]_vars

---------------------------------------------------------------------------
(* Vocabulary of the properties *)

RECURSIVE FedData(_)
FedData(ps) == IF ps = <<>> THEN <<>> ELSE Concat(PayloadData(Head(ps)), FedData(Tail(ps)))

RECURSIVE SumLen(_)
SumLen(ps) == IF ps = <<>> THEN 0 ELSE Head(ps).len + SumLen(Tail(ps))

AllValid(ps) == \A i \in 1..Len(ps) : Valid(ps[i])

NonSilent(p) == HasVariation(PayloadData(p), p.len \div 2, FEED_VARIATION_THRESHOLD)

FeedWhileActive == last.op = "feed" /\ pre.is_streaming

(* The last operation left the manager and the ring as it found them. *)
RingUntouched ==
    /\ streaming_buffer = pre.buf
    /\ streaming_write_pos = pre.w
    /\ streaming_read_pos = pre.r
    /\ is_streaming = pre.is_streaming

Unread == RemainingBytes(Cur)

UnreadBefore == RemainingBytes(pre)

OkWrites == Cardinality({i \in 1..Len(dev) : dev[i].fn # "stop" /\ dev[i].ok})

(* The last feed went through the large-payload path and stored a tail. *)
TailStored ==
    /\ FeedWhileActive
    /\ Valid(last.payload)
    /\ last.payload.len >= chunk_size
    /\ last.payload.len - chunk_size * OkWrites > 0

CursorOrder == streaming_read_pos <= streaming_write_pos

(* The manager state in which the last operation began. *)
PreM ==
    [is_streaming |-> pre.is_streaming, buf |-> pre.buf, w |-> pre.w, r |-> pre.r,
     en |-> pre.en, dev |-> <<>>, played |-> <<>>, failed |-> FALSE]

StopCall == DevCall("stop", <<>>, TRUE)

(* The device calls d hold exactly one data write, a one-shot playback of  *)
(* the bytes data.                                                         *)
OneDrainWrite(d, data) ==
    /\ DataWrites(d) = 1
    /\ \E i \in 1..Len(d) : d[i].fn = "play" /\ d[i].data = data

---------------------------------------------------------------------------
(* C1: after start, valid feeds whose lengths sum to a multiple of the     *)
(* chunk size, every device write succeeding: the bytes written to the     *)
(* device are the fed bytes, in order.                                     *)
C1_RoundTrip ==
    (/\ is_streaming
     /\ fed # <<>>
     /\ AllValid(fed)
     /\ ~failed
     /\ SumLen(fed) % chunk_size = 0)
    => Bytes(played) = Bytes(FedData(fed))

(* C2: the available-byte count lies in 0..capacity and both cursors lie   *)
(* in 0..capacity-1, in every reachable state.                             *)
C2_AvailableInRange ==
    /\ DataAvailable(streaming_write_pos, streaming_read_pos) \in 0..STREAMING_BUFFER_SIZE
    /\ streaming_write_pos \in 0..(STREAMING_BUFFER_SIZE - 1)
    /\ streaming_read_pos \in 0..(STREAMING_BUFFER_SIZE - 1)

C2_Witness ==
    /\ is_streaming
    /\ DataAvailable(streaming_write_pos, streaming_read_pos) >= chunk_size

(* C3: when feed stores the leftover tail of a large payload at the start  *)
(* of the ring, the ring holds no unread bytes.  Stated for the sessions   *)
(* in which no device write has failed, where the tail is shorter than a   *)
(* chunk.                                                                  *)
C3_TailOnEmptyRing ==
    (TailStored /\ ~failed) => DataAvailable(pre.w, pre.r) = 0

(* C4: a valid payload of k chunks plus a tail of r bytes, every write     *)
(* succeeding, gives exactly k device writes, the consecutive chunk-sized  *)
(* slices in order, and leaves the last r bytes at the start of the ring   *)
(* with read_pos = 0 and write_pos = r.                                    *)
C4_ChunksThenTail ==
    LET p == last.payload
        k == p.len \div chunk_size
        r == p.len % chunk_size
    IN  (FeedWhileActive /\ Valid(p) /\ k >= 1 /\ r > 0 /\ last.failAt = 0)
        => /\ Len(dev) = k
           /\ \A i \in 1..k :
                dev[i] = DevCall("stream", <<Seg(p.kind, (i - 1) * chunk_size, chunk_size)>>, TRUE)
           /\ streaming_read_pos = 0
           /\ streaming_write_pos = r
           /\ Unread = <<Seg(p.kind, k * chunk_size, r)>>
           /\ Slice(streaming_buffer, r, STREAMING_BUFFER_SIZE - r)
                = Slice(pre.buf, r, STREAMING_BUFFER_SIZE - r)

C4_Witness ==
    /\ FeedWhileActive
    /\ last.payload = Payload("tone", 2410)
    /\ last.failAt = 0
    /\ Len(dev) = 3
    /\ streaming_write_pos = 10

(* C5 as stated: a non-silent feed of chunk_size - 1 bytes while Active is *)
(* buffered in the ring, neither played nor discarded.                     *)
C5_ChunkMinusOneBuffered ==
    (FeedWhileActive /\ last.payload.len = chunk_size - 1 /\ NonSilent(last.payload))
    => /\ dev = <<>>
       /\ Unread = Concat(UnreadBefore, PayloadData(last.payload))

(* C5 amended: a non-silent feed of chunk_size - 2 bytes while Active,     *)
(* arriving when the ring holds no unread bytes, is appended to the ring   *)
(* and not played; and unread bytes of that amount stay as they are under  *)
(* every feed except a valid one, which brings the total to chunk_size or  *)
(* more.                                                                   *)
C5_ChunkMinusTwoBuffered ==
    LET p == last.payload IN
    /\ (FeedWhileActive /\ p.len = chunk_size - 2 /\ NonSilent(p)
            /\ DataAvailable(pre.w, pre.r) = 0)
       => /\ dev = <<>>
          /\ is_streaming
          /\ streaming_read_pos = pre.r
          /\ streaming_write_pos = pre.w + p.len
          /\ Unread = PayloadData(p)
    /\ (FeedWhileActive /\ DataAvailable(pre.w, pre.r) = chunk_size - 2
            /\ (Unread # UnreadBefore \/ dev # <<>>))
       => /\ Valid(p)
          /\ DataAvailable(pre.w, pre.r) + p.len >= chunk_size

C5_Witness ==
    /\ FeedWhileActive
    /\ DataAvailable(pre.w, pre.r) = chunk_size - 2
    /\ UnreadBefore = PayloadData(Payload("tone", chunk_size - 2))
    /\ last.payload = Payload("tone", 200)
    /\ OkWrites = 1

(* C6: after start, one valid payload of exactly one chunk gives exactly   *)
(* one device write carrying its bytes, and a following stop finds no      *)
(* residual bytes and issues no drain write.                               *)
C6_OneChunkThenStop ==
    LET one == Len(fed) = 1 /\ Valid(fed[1]) /\ fed[1].len = chunk_size IN
    /\ (FeedWhileActive /\ one)
       => /\ DataWrites(dev) = 1
          /\ dev[1].data = PayloadData(fed[1])
    /\ (last.op = "stop" /\ last.after = "feed" /\ pre.is_streaming /\ one)
       => /\ DataAvailable(pre.w, pre.r) = 0
          /\ DataWrites(dev) = 0

(* C7: stop_streaming_playback leaves the state Idle with both cursors 0,  *)
(* and a second call in a row changes nothing and makes no device call.    *)
C7_StopIdempotent ==
    /\ last.op = "stop"
       => ~is_streaming /\ streaming_write_pos = 0 /\ streaming_read_pos = 0
    /\ (last.op = "stop" /\ last.after = "stop")
       => /\ dev = <<>>
          /\ RingUntouched
          /\ tx_channel_enabled = pre.en

C7_Witness ==
    /\ last.op = "stop"
    /\ last.after = "stop"
    /\ last.afterActive
    /\ played # <<>>

(* C8: a feed shorter than 128 bytes causes no device write and leaves the *)
(* ring as it was; after start, a session of such feeds only has an empty  *)
(* ring and nothing played.                                                *)
C8_ShortFeedDiscarded ==
    /\ (last.op = "feed" /\ last.payload.len < 128)
       => dev = <<>> /\ RingUntouched
    /\ (is_streaming /\ \A i \in 1..Len(fed) : fed[i].len < 128)
       => /\ streaming_write_pos = 0
          /\ streaming_read_pos = 0
          /\ streaming_buffer = ZeroRun(STREAMING_BUFFER_SIZE)
          /\ played = <<>>

C8_Witness ==
    /\ FeedWhileActive
    /\ fed = <<Payload("tone", 40), Payload("tone", 127)>>

(* C9: a feed of valid length and parity in which no adjacent-sample       *)
(* difference exceeds 30 causes no device write and leaves the ring as it  *)
(* was.                                                                    *)
C9_SilentFeedDiscarded ==
    LET p == last.payload IN
    (last.op = "feed" /\ p.len >= 128 /\ p.len % 2 = 0
        /\ \A i \in 1..(p.len \div 2 - 1) :
              Abs(SampleOf(p.kind, i) - SampleOf(p.kind, i - 1)) <= 30)
    => dev = <<>> /\ RingUntouched

C9_Witness ==
    /\ FeedWhileActive
    /\ last.payload = Payload("flat", 200)
    /\ DataAvailable(pre.w, pre.r) > 0

(* C10: a feed of odd length causes no device write and leaves the ring as *)
(* it was, whatever its size and content.                                  *)
C10_OddFeedDiscarded ==
    (last.op = "feed" /\ last.payload.len % 2 = 1)
    => dev = <<>> /\ RingUntouched

C10_Witness ==
    /\ FeedWhileActive
    /\ last.payload = Payload("tone", 801)
    /\ DataAvailable(pre.w, pre.r) > 0

(* C11: a feed while Idle is a no-op for every payload: no device call is  *)
(* made and the state, both cursors, the ring contents and the output      *)
(* channel are as before.                                                  *)
C11_FeedWhileIdleNoOp ==
    (last.op = "feed" /\ ~pre.is_streaming)
    => /\ dev = <<>>
       /\ RingUntouched
       /\ tx_channel_enabled = pre.en

C11_Witness ==
    /\ last.op = "feed"
    /\ ~pre.is_streaming
    /\ last.after = "finish"
    /\ last.afterActive
    /\ last.payload = Payload("tone", 1400)
    /\ pre.buf # ZeroRun(STREAMING_BUFFER_SIZE)

(* C12: the state becomes Active only in start_streaming_playback and Idle *)
(* only in stop_streaming_playback or finish_streaming_playback: start     *)
(* leaves it Active, stop and finish leave it Idle, feed leaves it as it   *)
(* was, and stop or finish called in Idle change nothing and make no       *)
(* device call.  The code at the end of streaming_playback_task does not   *)
(* change it either.                                                       *)
C12_StateMachine ==
    /\ (is_streaming /\ ~pre.is_streaming) => last.op = "start"
    /\ (~is_streaming /\ pre.is_streaming) => last.op \in {"stop", "finish"}
    /\ last.op = "start" => is_streaming
    /\ last.op \in {"stop", "finish"} => ~is_streaming
    /\ last.op = "feed" => is_streaming = pre.is_streaming
    /\ (last.op \in {"stop", "finish"} /\ ~pre.is_streaming)
       => /\ dev = <<>>
          /\ RingUntouched
          /\ tx_channel_enabled = pre.en
    /\ \A failAt \in 0..1 : PlaybackTaskExit(Cur, failAt).is_streaming = is_streaming

C12_Witness ==
    /\ last.op = "feed"
    /\ pre.is_streaming
    /\ is_streaming
    /\ Valid(last.payload)
    /\ last.payload.len < chunk_size
    /\ DataAvailable(pre.w, pre.r) > 0
    /\ dev # <<>>
    /\ ~dev[1].ok

(* C13: when start_streaming_playback returns the state is Active, both    *)
(* cursors are 0 and the ring storage is all zero, whatever the state and  *)
(* the ring contents were when it was called.                              *)
C13_StartClearsRing ==
    last.op = "start"
    => /\ is_streaming
       /\ streaming_write_pos = 0
       /\ streaming_read_pos = 0
       /\ streaming_buffer = ZeroRun(STREAMING_BUFFER_SIZE)

C13_Witness ==
    /\ last.op = "start"
    /\ ~pre.is_streaming
    /\ pre.buf # ZeroRun(STREAMING_BUFFER_SIZE)
    /\ is_streaming

(* C14: start_streaming_playback called while Active runs the whole        *)
(* teardown of stop before it re-arms: the device is stopped first, the    *)
(* residual bytes are drained under the 16 KB bound by the one write stop  *)
(* makes, the device calls of the operation are exactly those of the       *)
(* teardown, which leaves the state Idle with both cursors 0, and only     *)
(* then the state is Active again, over a zeroed ring.                     *)
C14_StartRunsTeardown ==
    (last.op = "start" /\ pre.is_streaming)
    => LET residual == DataAvailable(pre.w, pre.r)
           teardown == StopStreaming(PreM, last.failAt)
       IN  /\ dev # <<>>
           /\ dev[1] = StopCall
           /\ (residual > 0 /\ residual <= 16384) => OneDrainWrite(dev, UnreadBefore)
           /\ (residual = 0 \/ residual > 16384) => DataWrites(dev) = 0
           /\ ~teardown.is_streaming /\ teardown.w = 0 /\ teardown.r = 0
           /\ dev = teardown.dev
           /\ tx_channel_enabled = teardown.en
           /\ is_streaming
           /\ streaming_write_pos = 0
           /\ streaming_read_pos = 0

C14_Witness ==
    /\ last.op = "start"
    /\ pre.is_streaming
    /\ DataAvailable(pre.w, pre.r) = 600
    /\ OneDrainWrite(dev, <<Seg("tone", 800, 600)>>)
    /\ is_streaming

(* C15: the teardown of stop_streaming_playback plays the residual unread  *)
(* bytes through exactly one device write when there are between 1 and     *)
(* 16384 of them, and makes no data write and drops them when there are    *)
(* more; either way both cursors end at 0 over a zeroed ring.  The code at *)
(* the end of streaming_playback_task does the same to every state the     *)
(* manager reaches.                                                        *)
C15_TeardownDrain ==
    /\ (last.op = "stop" /\ pre.is_streaming)
       => LET residual == DataAvailable(pre.w, pre.r) IN
          /\ (residual > 0 /\ residual <= 16384) => OneDrainWrite(dev, UnreadBefore)
          /\ residual > 16384 => DataWrites(dev) = 0
          /\ streaming_write_pos = 0
          /\ streaming_read_pos = 0
          /\ streaming_buffer = ZeroRun(STREAMING_BUFFER_SIZE)
    /\ \A failAt \in 0..1 :
          LET residual == DataAvailable(streaming_write_pos, streaming_read_pos)
              t == PlaybackTaskExit(Cur, failAt)
          IN  /\ (residual > 0 /\ residual <= 16384) => OneDrainWrite(t.dev, Unread)
              /\ residual > 16384 => DataWrites(t.dev) = 0
              /\ t.w = 0 /\ t.r = 0 /\ t.buf = ZeroRun(STREAMING_BUFFER_SIZE)

C15_Witness ==
    /\ last.op = "stop"
    /\ pre.is_streaming
    /\ DataAvailable(pre.w, pre.r) = 16384 + 800
    /\ dev = <<StopCall, StopCall>>
    /\ streaming_write_pos = 0

(* C16: finish_streaming_playback called while Active stops the device,    *)
(* then plays all the residual unread bytes, write_pos - read_pos of them  *)
(* whatever their amount, through one device write, and leaves the state   *)
(* Idle with both cursors 0.                                               *)
C16_FinishPlaysAll ==
    (last.op = "finish" /\ pre.is_streaming)
    => LET residual == pre.w - pre.r IN
       /\ dev # <<>>
       /\ dev[1] = StopCall
       /\ residual > 0
          => /\ OneDrainWrite(dev, Slice(pre.buf, pre.r, residual))
             /\ dev[2].fn = "play"
             /\ dev[2].ok = (last.failAt = 0)
       /\ residual = 0 => DataWrites(dev) = 0
       /\ ~is_streaming
       /\ streaming_write_pos = 0
       /\ streaming_read_pos = 0

C16_Witness ==
    /\ last.op = "finish"
    /\ pre.is_streaming
    /\ pre.w - pre.r = 16384 + 800
    /\ DataWrites(dev) = 1
    /\ dev[2].ok
    /\ ~is_streaming

(* C17: while the session is Active, write_pos is assigned only by the     *)
(* feed path and read_pos only by the playback task: between start and the *)
(* stop or finish that ends the session the only operation is feed, and    *)
(* feed assigns no read_pos.  Stated for the sessions in which no device   *)
(* write has failed.                                                       *)
C17_SingleWriterSingleReader ==
    /\ (pre.is_streaming /\ is_streaming /\ streaming_write_pos # pre.w) => last.op = "feed"
    /\ (FeedWhileActive /\ ~failed)
       => "streaming_read_pos" \notin FeedStores(PreM, last.payload, last.failAt)

(* The cursors that change under a feed are among those FeedStores names.  *)
FeedStoresCoverChanges ==
    FeedWhileActive
    => LET st == FeedStores(PreM, last.payload, last.failAt) IN
       /\ streaming_write_pos # pre.w => "streaming_write_pos" \in st
       /\ streaming_read_pos # pre.r => "streaming_read_pos" \in st
       /\ (st = {} /\ dev = <<>>) => RingUntouched

(* The recording buffer holds sample_rate * recording_duration_sec samples *)
(* and one captured chunk is pcm_data_size / 2 of them.                    *)
RecordingCapacity == sample_rate * recording_duration_sec

ChunkSamples == pcm_data_size \div 2

(* C18: the recorded length never exceeds the capacity of the recording    *)
(* buffer; a captured chunk that would exceed it is dropped whole and the  *)
(* length stays as it was, and a chunk that fits advances the length by    *)
(* its samples.                                                            *)
C18_RecordingWithinCapacity ==
    /\ recording_length \in 0..RecordingCapacity
    /\ (rlast.op = "chunk" /\ rlast.len + ChunkSamples > RecordingCapacity)
       => recording_length = rlast.len
    /\ (rlast.op = "chunk" /\ rlast.len + ChunkSamples <= RecordingCapacity)
       => recording_length = rlast.len + ChunkSamples

C18_Witness ==
    /\ rlast.op = "chunk"
    /\ rlast.len = RecordingCapacity
    /\ recording_length = RecordingCapacity

(* C19 as stated: every call of start_recording leaves the length 0 and    *)
(* the flag set, and every call of stop_recording leaves the flag clear.   *)
C19_StartAlwaysResets ==
    /\ rlast.op = "start_recording" => recording_length = 0 /\ is_recording
    /\ rlast.op = "stop_recording" => ~is_recording

(* C19 amended: a call of start_recording made with the flag clear leaves  *)
(* the length 0 and the flag set; a call made with the flag set leaves the *)
(* flag set and the length as it was; every call of stop_recording leaves  *)
(* the flag clear and the length as it was.                                *)
C19_StartResetsWhenStopped ==
    /\ (rlast.op = "start_recording" /\ ~rlast.rec)
       => recording_length = 0 /\ is_recording
    /\ (rlast.op = "start_recording" /\ rlast.rec)
       => recording_length = rlast.len /\ is_recording
    /\ rlast.op = "stop_recording"
       => recording_length = rlast.len /\ ~is_recording

C19_Witness ==
    /\ rlast.op = "start_recording"
    /\ ~rlast.rec
    /\ rlast.len = RecordingCapacity
    /\ recording_length = 0
    /\ is_recording

(* C20: every duplicated chunk is released exactly once.  The blocks       *)
(* allocated and not yet freed are those of the queued items, one each,    *)
(* and no free is ever made without a block outstanding; the consumer      *)
(* frees the block of the item it takes whether or not it sends it; the    *)
(* task frees at once the duplicate it could not queue, which happens only *)
(* with the queue full, and keeps the block of a duplicate it queued.      *)
C20_ChunkReleasedOnce ==
    /\ ~heap.fault
    /\ heap.live = Len(s_audio_send_queue)
    /\ rlast.op = "receive"
       => /\ heap.live = rlast.live - 1
          /\ s_audio_send_queue = Tail(rlast.q)
    /\ (rlast.op = "chunk" /\ rlast.dropped)
       => /\ Len(rlast.q) = SEND_QUEUE_LENGTH
          /\ heap.live = rlast.live
          /\ s_audio_send_queue = rlast.q
    /\ (rlast.op = "chunk" /\ rlast.queued)
       => /\ heap.live = rlast.live + 1
          /\ s_audio_send_queue = Append(rlast.q, AudioQueueItem("data_to_send", pcm_data_size))

C20_Witness ==
    /\ rlast.op = "chunk"
    /\ rlast.dropped
    /\ heap.live = SEND_QUEUE_LENGTH
    /\ recording_length = RecordingCapacity

C25_SmallPayloadMerge ==
    (FeedWhileActive /\ Valid(last.payload) /\ last.payload.len < chunk_size)
    => LET len == last.payload.len
           buffered == pre.w - pre.r
       IN  IF buffered + len >= chunk_size
           THEN /\ Len(dev) = 1
                /\ dev[1].fn = "stream"
                /\ dev[1].data = Concat(UnreadBefore, PayloadData(last.payload))
                /\ ByteLen(dev[1].data) = buffered + len
                /\ dev[1].ok = (last.failAt = 0)
                /\ dev[1].ok => streaming_write_pos = 0 /\ streaming_read_pos = 0
           ELSE /\ dev = <<>>
                /\ streaming_buffer = Overwrite(pre.buf, pre.w, PayloadData(last.payload))
                /\ streaming_write_pos = pre.w + len
                /\ streaming_read_pos = pre.r

(* A 600-byte payload merged with 200 buffered bytes: exactly one chunk. *)
C25_Witness ==
    /\ FeedWhileActive
    /\ last.payload = Payload("tone", 600)
    /\ pre.w - pre.r = 200
    /\ Len(dev) = 1
    /\ dev[1].ok
    /\ ByteLen(dev[1].data) = chunk_size
    /\ streaming_write_pos = 0

(* The byte strings a and b share bytes of one payload: a run of each is   *)
(* of the same payload kind and their offset ranges meet.                  *)
SharesBytes(a, b) ==
    \E i \in 1..Len(a) : \E j \in 1..Len(b) :
        /\ a[i].kind = b[j].kind
        /\ a[i].kind # "zero"
        /\ a[i].off < b[j].off + b[j].len
        /\ b[j].off < a[i].off + a[i].len

(* The data writes of the device calls d. *)
WritesOf(d) == {i \in 1..Len(d) : d[i].fn # "stop"}

(* C26: the bytes of a device write that failed in a feed are not written  *)
(* again.  In the state a feed leaves behind after one of its writes       *)
(* failed, neither the drain of stop, nor the drain of finish, nor a next  *)
(* feed of a payload of another kind writes any byte of the failed write.  *)
C26_FailedWriteDropped ==
    (FeedWhileActive /\ \E i \in WritesOf(dev) : ~dev[i].ok)
    => LET bad == dev[CHOOSE i \in WritesOf(dev) : ~dev[i].ok].data
           later == {StopStreaming(Cur, 0).dev, FinishStreaming(Cur, 0).dev,
                     FeedStreaming(Cur, Payload("soft", 800), 0).dev,
                     FeedStreaming(Cur, Payload("soft", 128), 0).dev}
       IN  \A d \in later : \A j \in WritesOf(d) : ~SharesBytes(d[j].data, bad)

(* C29: both ring cursors are even in every reachable state, so the        *)
(* condition under which streaming_playback_task realigns an odd read      *)
(* cursor is false in every reachable state.                               *)
C29_CursorsEven ==
    /\ streaming_write_pos % 2 = 0
    /\ streaming_read_pos % 2 = 0
    /\ ~RealignNeeded(Cur)

(* A retained chunk and tail: a chunk is available to the reader, the      *)
(* write cursor is at 2410 and the cursors are even.                       *)
C29_Witness ==
    /\ FeedWhileActive
    /\ last.payload = Payload("tone", 2410)
    /\ streaming_write_pos = 2410
    /\ DataAvailable(streaming_write_pos, streaming_read_pos) >= chunk_size
    /\ streaming_write_pos % 2 = 0
    /\ streaming_read_pos % 2 = 0

(* A step of the feed in progress: a turn of the slice loop, the leftover  *)
(* store, or the small path.                                               *)
FeedStep == last.op \in {"feed_slice", "feed_tail", "feed_small"}

(* C24: a feed in progress whose next step begins with the state Idle      *)
(* makes no device call in that step and leaves the cursors and the ring   *)
(* as they are.                                                            *)
C24_FeedStopsWhenIdle ==
    (FeedStep /\ ~pre.is_streaming)
    => /\ dev = <<>>
       /\ streaming_buffer = pre.buf
       /\ streaming_write_pos = pre.w
       /\ streaming_read_pos = pre.r

(* Lemma: the large path does read the state again, at each turn of its   *)
(* loop and before it stores the leftover.                                 *)
LargePathStopsWhenIdle ==
    (last.op \in {"feed_slice", "feed_tail"} /\ ~pre.is_streaming)
    => /\ dev = <<>>
       /\ streaming_buffer = pre.buf
       /\ streaming_write_pos = pre.w
       /\ streaming_read_pos = pre.r

(* C27: a device write that fails in the loop of the playback task is      *)
(* followed by bsp_audio_stop, and the task goes on with its loop: it      *)
(* leaves the loop only when it reads the state Idle.  The chunk of the    *)
(* failed write was consumed when it was copied: the copy moved the read   *)
(* cursor past it, the failed write moves nothing back, and no later       *)
(* write made from the state after the failure (the next chunk of the      *)
(* task, the drain of stop, of finish or of the task's exit) holds a byte  *)
(* of it.                                                                  *)
C27_TaskWriteFailure ==
    /\ (last.op = "task_poll" /\ task_pc = "play")
       => /\ play_buffer = Slice(pre.buf, pre.r, play_chunk_size)
          /\ streaming_read_pos = (pre.r + play_chunk_size) % STREAMING_BUFFER_SIZE
    /\ (last.op \in {"task_poll", "task_play"} /\ pre.is_streaming)
       => task_pc \in {"loop", "play"}
    /\ (last.op = "task_play" /\ dev # <<>> /\ ~dev[1].ok)
       => /\ dev = <<DevCall("stream", play_buffer, FALSE), StopCall>>
          /\ ~tx_channel_enabled
          /\ task_pc = "loop"
          /\ RingUntouched
          /\ last.after = "task_poll"
             => \A d \in {<<DevCall("stream", TaskPoll(Cur, <<>>).chunk, TRUE)>>,
                          StopStreaming(Cur, 0).dev, FinishStreaming(Cur, 0).dev,
                          PlaybackTaskExit(Cur, 0).dev} :
                    \A i \in WritesOf(d) : ~SharesBytes(d[i].data, play_buffer)

(* The first chunk of a retained payload of 1400 bytes fails in the task,  *)
(* with the other 600 bytes unread.                                        *)
C27_Witness ==
    /\ last.op = "task_play"
    /\ last.after = "task_poll"
    /\ pre.is_streaming
    /\ dev # <<>>
    /\ ~dev[1].ok
    /\ task_pc = "loop"
    /\ streaming_read_pos = play_chunk_size
    /\ streaming_write_pos = 1400

(* The variation check of feed_streaming_audio, applied to one chunk. *)
FeedHasSignal(chunk) ==
    HasVariation(chunk, play_chunk_size \div 2, FEED_VARIATION_THRESHOLD)

(* C28: the playback task classifies a chunk as the feed path does.  A     *)
(* payload of one chunk that the feed path has accepted, so that it has    *)
(* signal by the check of the feed path, has signal by the check the task  *)
(* makes on a chunk.                                                       *)
C28_SamePredicate ==
    (FeedWhileActive /\ Valid(last.payload) /\ last.payload.len = play_chunk_size
        /\ FeedHasSignal(PayloadData(last.payload)))
    => PlaybackHasSignal(PayloadData(last.payload))

(* C30: whenever the state is Idle while the playback task is running,     *)
(* the task later terminates, and a step of the task that begins with the  *)
(* state Idle writes no chunk to the device.                               *)
C30_CooperativeCancellation ==
    /\ [](((last.op \in {"task_poll", "task_play"}) /\ ~pre.is_streaming) => dev = <<>>)
    /\ (~is_streaming /\ TaskRunning) ~> (task_pc = "none")

(* C22: a valid payload of the small path that is to be appended (the      *)
(* unread bytes and the payload stay below one chunk) and with which the   *)
(* write cursor would reach or pass the end of the storage is refused      *)
(* whole: no device call, and the ring and both cursors as they were.      *)
C22_OverflowAppendRejected ==
    (FeedWhileActive /\ Valid(last.payload) /\ last.payload.len < chunk_size
        /\ (pre.w - pre.r) + last.payload.len < chunk_size
        /\ pre.w + last.payload.len >= STREAMING_BUFFER_SIZE)
    => /\ dev = <<>>
       /\ RingUntouched
       /\ tx_channel_enabled = pre.en

(* The payload would end exactly at the end of the storage. *)
C22_Witness ==
    /\ FeedWhileActive
    /\ last.payload = Payload("tone", MIN_PACKET_LEN)
    /\ pre.w = STREAMING_BUFFER_SIZE - MIN_PACKET_LEN
    /\ pre.r = pre.w - 200
    /\ dev = <<>>
    /\ streaming_write_pos = pre.w


C34_CursorsOrdered ==
    /\ streaming_read_pos <= streaming_write_pos
    /\ streaming_write_pos < STREAMING_BUFFER_SIZE
    /\ ~Wrapped(streaming_write_pos - streaming_read_pos)
    /\ streaming_read_pos + (streaming_write_pos - streaming_read_pos) <= STREAMING_BUFFER_SIZE
    /\ streaming_write_pos - streaming_read_pos
           = DataAvailable(streaming_write_pos, streaming_read_pos)

(* The small path has taken the difference with bytes buffered, and a tail *)
(* store has set both cursors.                                             *)
C34_Witness ==
    /\ FeedWhileActive
    /\ Valid(last.payload)
    /\ last.payload.len < chunk_size
    /\ pre.w - pre.r = 600
    /\ last.after = "feed"
    /\ dev # <<>>

DataWriteSeq(d) == SelectSeq(d, LAMBDA c : c.fn # "stop")

(* C39: a teardown that began Active with at most 16384 unread bytes ends  *)
(* the same whether it was stop_streaming_playback or                      *)
(* finish_streaming_playback: what the call that was made did is what the  *)
(* other call does from the same state, for the same outcome of the device *)
(* write: the same data writes (at most one, of the unread bytes), the     *)
(* state Idle and both cursors 0.                                          *)
C39_StopFinishEquivalent ==
    (last.op \in {"stop", "finish"} /\ pre.is_streaming
        /\ DataAvailable(pre.w, pre.r) <= TAIL_LIMIT)
    => LET other == IF last.op = "stop" THEN FinishStreaming(PreM, last.failAt)
                    ELSE StopStreaming(PreM, last.failAt)
       IN  /\ DataWriteSeq(dev) = DataWriteSeq(other.dev)
           /\ DataWrites(dev) <= 1
           /\ \A i \in WritesOf(dev) : dev[i].data = UnreadBefore /\ dev[i].fn = "play"
           /\ DataAvailable(pre.w, pre.r) > 0 => DataWrites(dev) = 1
           /\ is_streaming = other.is_streaming
           /\ ~is_streaming
           /\ streaming_write_pos = other.w /\ streaming_write_pos = 0
           /\ streaming_read_pos = other.r /\ streaming_read_pos = 0
           /\ tx_channel_enabled = other.en

(* A stop that drains the tail of a payload: 600 bytes, played once. *)
C39_Witness ==
    /\ last.op = "stop"
    /\ pre.is_streaming
    /\ pre.w - pre.r = 600
    /\ DataWrites(dev) = 1
    /\ DataWriteSeq(dev) = DataWriteSeq(FinishStreaming(PreM, last.failAt).dev)
    /\ ~is_streaming

(* C36: the clearing of the ring that start_streaming_playback makes after *)
(* it has set the state Active erases nothing a feed has stored since:     *)
(* with payloads accepted since the state was set, the unread bytes and    *)
(* the write cursor are after the clearing what they were before it.       *)
C36_StartKeepsAcceptedFeed ==
    (last.op = "start_zero" /\ fed # <<>> /\ AllValid(fed))
    => /\ streaming_write_pos = pre.w
       /\ Unread = UnreadBefore

(* C38: a chunk that the capture task was holding when start_recording     *)
(* began a new session is not counted in the length of that session.  The  *)
(* step of the task that follows such a start at once is the rest of an    *)
(* iteration that read the flag before the start, hence in the session     *)
(* before, the flag having been clear when the start began: it leaves the  *)
(* length at the 0 the start has set.                                      *)
C38_NewSessionCountsOwnChunks ==
    (rlast.op = "chunk" /\ rlast.after = "start_recording" /\ ~rlast.afterRec)
    => /\ rlast.len = 0
       /\ recording_length = 0

(* C31: the drain of finish_streaming_playback and a turn of the playback  *)
(* task do not work on the same bytes of the ring.  While finish is        *)
(* between its reading of the cursors and its reset of them, the unread    *)
(* bytes of the ring are those it measured and copied, and a chunk the     *)
(* task writes to the device in that time holds none of the bytes finish   *)
(* has copied for its own write.                                           *)
C31_FinishDrainAlone ==
    /\ (ws_pc = "finish_drain")
       => /\ streaming_write_pos - streaming_read_pos = remaining_size
          /\ remaining_size > 0
             => remaining_buffer = Slice(streaming_buffer, streaming_read_pos, remaining_size)
    /\ (ws_pc = "finish_drain" /\ last.op = "task_play")
       => \A i \in WritesOf(dev) : ~SharesBytes(dev[i].data, remaining_buffer)

(* C33: the unread bytes that stop_streaming_playback has played in its    *)
(* drain are not played again by the drain the playback task makes when    *)
(* it leaves its loop.  With stop in its wait, and no device write having  *)
(* failed in the session, the exit of the task writes none of the bytes    *)
(* stop has copied and played.                                             *)
C33_ResidualDrainedOnce ==
    (last.op = "task_exit" /\ ws_pc = "stop_wait" /\ ~failed)
    => \A i \in WritesOf(dev) : ~SharesBytes(dev[i].data, remaining_buffer)

(* C37: the clearing the playback task makes when it exits erases no byte  *)
(* that a feed of a later session has buffered.  An exit that begins with  *)
(* the state Active again, the session that the task belonged to having    *)
(* been ended by a stop, and with payloads accepted since the state was    *)
(* set, leaves the write cursor and the unread bytes as it found them.     *)
C37_ExitCleanupOwnSession ==
    (last.op = "task_exit" /\ pre.is_streaming /\ fed # <<>> /\ AllValid(fed))
    => /\ streaming_write_pos = pre.w
       /\ Unread = UnreadBefore

(* C40: whenever the orchestration state is IDLE, the main loop waiting    *)
(* for the wake word, recording is off, whatever the order in which the    *)
(* steps of the wake sequence and of the DISCONNECTED callback are taken.  *)
C40_IdleNotRecording == current_state = "IDLE" => ~is_recording

=============================================================================
